---- MODULE Spec2Model ----
(***************************************************************************)
(* jd-crawler: one crawl pass over the active crawl targets.               *)
(*                                                                         *)
(* The store (crawl_targets, job_postings) is modelled as two tables, the  *)
(* crawler as the sequential program of src/main.py, src/crawler.py and    *)
(* the three API adapters in src/parsers/.  Upstream (the HTTP servers)    *)
(* is the environment: every fetch draws its outcome from a small set.     *)
(*                                                                         *)
(* Strings are modelled by values that are equal exactly when the strings  *)
(* are: a URL is <<base path, id>>, a json.dumps text is the tuple of the  *)
(* serialized fields, a SHA-256 hex digest is a record wrapping the hashed *)
(* text (the digest is taken to be collision free).                        *)
(***************************************************************************)
EXTENDS Integers, Sequences, FiniteSets, TLC

\* ------------------------------------------------------------------ bounds
MaxCrawls == 2

\* ------------------------------------------------------- program constants
MAX_RETRIES == 3
RETRY_DELAY == 2
\* wait_exponential(multiplier=RETRY_DELAY, min=1, max=10) of fetch_url
WaitMin == 1
WaitMax == 10

TargetIds == {1, 2}
JobIds == {0, 1}           \* 0: the identity field is missing or empty
Revisions == {1, 2}        \* values of updated_at / uptDate, page revisions

API_PARSER_TYPES == {"toss_job_groups_api", "daangn_greenhouse_api", "kakao_api"}
PARSER_REGISTRY == {"generic"}
ParserTypes == API_PARSER_TYPES \cup PARSER_REGISTRY \cup {"wanted"}

StatKeys == {"NEW", "UPDATED", "SKIP", "ERROR"}
ZeroStats == [k \in StatKeys |-> 0]

\* None for a nullable column; timestamps are positive, None is 0.
NoneHash == [alg |-> "None", text |-> <<>>]
NoneTime == 0
NoneText == <<>>

\* ------------------------------------------------------------ upstream data
\* Revision m of upstream job i: the raw job object of an API list.  Its title
\* and organisation metadata belong to the revision.
Job(i, m) ==
    [id |-> i, updated_at |-> m, title |-> <<"title", m>>,
     org |-> IF m = 1 THEN <<>> ELSE <<"org", m>>,
     absolute_url |-> IF i = 0 THEN <<>> ELSE <<"https://toss.im/career/job-detail", i>>]

ApiJobs == {Job(i, m) : i \in JobIds, m \in Revisions} \ {Job(0, 2)}

\* An element of an HTML list page: a link (href, 0 when it has none) and a title.
Stub(h, m) == [href |-> h, title |-> <<"title", m>>]

HtmlStubs == {Stub(h, m) : h \in JobIds, m \in Revisions} \ {Stub(0, 2)}

\* The lists and pages of the model hold up to two entries.
ListLengths == 0..2

SeqsOver(S) == UNION {[1..k -> S] : k \in ListLengths}

JobLists == SeqsOver(ApiJobs)

\* A list page: its elements and a request-scoped token in a volatile attribute.
ListPages == [elements : SeqsOver(HtmlStubs), nonce : {0, 1}]

\* The text a detail page yields; <<>> is a page without content.
DetailTexts == {<<>>} \cup {<<"text", m>> : m \in Revisions}

\* A detail page and GenericParser.parse_detail, the text of its content element.
DetailPages == [main : DetailTexts]

\* What one HTTP attempt can raise.
HTTPErrors == {"5xx", "4xx", "transport"}      \* httpx.HTTPError / requests.RequestException
OtherErrors == {"invalid_url"}                  \* not an httpx.HTTPError

\* ------------------------------------------------------------ pure functions
\* Python's tuple order on (id, last-modified) pairs.
PairLeq(p, q) == p[1] < q[1] \/ (p[1] = q[1] /\ p[2] <= q[2])

RECURSIVE Insert(_, _)
Insert(p, s) ==
    IF s = <<>> THEN <<p>>
    ELSE IF PairLeq(p, Head(s)) THEN <<p>> \o s
    ELSE <<Head(s)>> \o Insert(p, Tail(s))

RECURSIVE sorted(_)
sorted(s) == IF s = <<>> THEN <<>> ELSE Insert(Head(s), sorted(Tail(s)))

\* hashlib.sha256(content.encode("utf-8")).hexdigest()
Sha256(content) == [alg |-> "sha256", text |-> content]

\* _compute_list_hash taking the pairs in the order the API lists the jobs.
_compute_list_hash_unsorted(jobs) ==
    Sha256([k \in 1..Len(jobs) |-> <<jobs[k].id, jobs[k].updated_at>>])

\* Digest of the sorted (id, updated_at) pairs of an API job list.
_compute_list_hash(jobs) ==
    LET pairs == sorted([k \in 1..Len(jobs) |-> <<jobs[k].id, jobs[k].updated_at>>])
    IN Sha256(pairs)

compute_hash(content) == Sha256(content)

\* BaseParser.normalize_html: the markup without scripts, comments and the
\* volatile attributes; what stays is the elements of the page.
normalize_html(html) == html.elements

RECURSIVE SelectItems(_)
SelectItems(elements) ==
    IF elements = <<>> THEN <<>>
    ELSE LET e == Head(elements)
         IN IF e.href = 0 THEN SelectItems(Tail(elements))
            ELSE <<[title |-> e.title, url |-> <<"href", e.href>>, company_name |-> <<>>]>>
                 \o SelectItems(Tail(elements))

\* GenericParser.parse_list: one JobItem per element with a link.
parse_list(html) == SelectItems(html.elements)

parse_detail(html) == html.main

\* original_url_of formatting the URL before looking at the identifier.
original_url_of_unchecked(parser_type, job) ==
    IF parser_type = "toss_job_groups_api" THEN job.absolute_url
    ELSE IF parser_type = "daangn_greenhouse_api" THEN <<"https://about.daangn.com/jobs", job.id>>
    ELSE <<"https://careers.kakao.com/jobs", job.id>>

\* The canonical URL an API adapter gives a job; <<>> when it cannot build one.
original_url_of(parser_type, job) ==
    IF parser_type = "toss_job_groups_api" THEN job.absolute_url
    ELSE IF job.id = 0 THEN <<>>
    ELSE IF parser_type = "daangn_greenhouse_api" THEN <<"https://about.daangn.com/jobs", job.id>>
    ELSE <<"https://careers.kakao.com/jobs", job.id>>

\* _build_company_name (Toss, Daangn) and job.get("companyName", ...) (Kakao).
company_name_of(parser_type, job) ==
    IF parser_type = "toss_job_groups_api"
    THEN IF job.org = <<>> THEN <<"Toss">> ELSE <<"Toss / ">> \o job.org
    ELSE IF parser_type = "daangn_greenhouse_api"
    THEN IF job.org = <<>> THEN <<"Daangn">> ELSE <<"Daangn / ">> \o job.org
    ELSE IF job.org = <<>> THEN <<"Kakao">> ELSE job.org

\* _build_content_raw: json.dumps of the projected fields and the raw job.
_build_content_raw(job) ==
    <<"updated_at", job.updated_at, "raw", job.id, job.updated_at, job.title, job.org,
      job.absolute_url>>

\* ------------------------------------------------------------------- store
\* Faulty variants of upsert_job_posting.  UpsertFault is the operation with
\* its choices left open: the rows the lookup finds, whether the SKIP branch
\* touches updated_at, whether the update resets created_at, and the
\* created_at an insert writes.
UpsertFault(rows, now, target_id, title, company_name, content_raw, original_url,
            existing, touch_on_skip, reset_created, insert_created) ==
    IF existing # {}
    THEN LET first == CHOOSE r \in existing : \A q \in existing : r.id <= q.id
         IN IF first.content_raw = content_raw
            THEN [rows |-> {IF r \in existing /\ touch_on_skip
                            THEN [r EXCEPT !.updated_at = now]
                            ELSE r : r \in rows},
                  result |-> "SKIP"]
            ELSE [rows |-> {IF r \in existing
                            THEN [r EXCEPT !.title = title,
                                           !.company_name = company_name,
                                           !.content_raw = content_raw,
                                           !.created_at = IF reset_created THEN now ELSE @,
                                           !.updated_at = now]
                            ELSE r : r \in rows},
                  result |-> "UPDATED"]
    ELSE [rows |-> rows \cup {[id |-> Cardinality(rows) + 1,
                               crawl_target_id |-> target_id,
                               title |-> title,
                               company_name |-> company_name,
                               content_raw |-> content_raw,
                               original_url |-> original_url,
                               created_at |-> insert_created,
                               updated_at |-> now]},
          result |-> "NEW"]

\* The insert leaves created_at to the column default.
upsert_without_created_at(rows, now, target_id, title, company_name, content_raw, original_url) ==
    UpsertFault(rows, now, target_id, title, company_name, content_raw, original_url,
                {r \in rows : r.original_url = original_url}, FALSE, FALSE, NoneTime)

\* The SKIP branch stamps the row it found.
upsert_touching_on_skip(rows, now, target_id, title, company_name, content_raw, original_url) ==
    UpsertFault(rows, now, target_id, title, company_name, content_raw, original_url,
                {r \in rows : r.original_url = original_url}, TRUE, FALSE, now)

\* The update writes created_at along with updated_at.
upsert_resetting_created_at(rows, now, target_id, title, company_name, content_raw, original_url) ==
    UpsertFault(rows, now, target_id, title, company_name, content_raw, original_url,
                {r \in rows : r.original_url = original_url}, FALSE, TRUE, now)

\* The lookup is scoped to the calling target.
upsert_per_target_lookup(rows, now, target_id, title, company_name, content_raw, original_url) ==
    UpsertFault(rows, now, target_id, title, company_name, content_raw, original_url,
                {r \in rows : r.original_url = original_url /\ r.crawl_target_id = target_id},
                FALSE, FALSE, now)

\* The update runs whenever the URL is stored, without comparing the content.
upsert_always_updating(rows, now, target_id, title, company_name, content_raw, original_url) ==
    IF \E r \in rows : r.original_url = original_url
    THEN [rows |-> {IF r.original_url = original_url
                    THEN [r EXCEPT !.title = title, !.company_name = company_name,
                                   !.content_raw = content_raw, !.updated_at = now]
                    ELSE r : r \in rows},
          result |-> "UPDATED"]
    ELSE [rows |-> rows \cup {[id |-> Cardinality(rows) + 1, crawl_target_id |-> target_id,
                               title |-> title, company_name |-> company_name,
                               content_raw |-> content_raw, original_url |-> original_url,
                               created_at |-> now, updated_at |-> now]},
          result |-> "NEW"]

\* The SKIP branch is taken only when title and company name are the stored
\* ones as well; any difference runs the update.
upsert_comparing_all_fields(rows, now, target_id, title, company_name, content_raw, original_url) ==
    LET existing == {r \in rows : r.original_url = original_url}
    IN IF existing # {}
       THEN LET first == CHOOSE r \in existing : \A q \in existing : r.id <= q.id
            IN IF /\ first.content_raw = content_raw
                  /\ first.title = title
                  /\ first.company_name = company_name
               THEN [rows |-> rows, result |-> "SKIP"]
               ELSE [rows |-> {IF r.original_url = original_url
                               THEN [r EXCEPT !.title = title,
                                              !.company_name = company_name,
                                              !.content_raw = content_raw,
                                              !.updated_at = now]
                               ELSE r : r \in rows},
                     result |-> "UPDATED"]
       ELSE [rows |-> rows \cup {[id |-> Cardinality(rows) + 1,
                                  crawl_target_id |-> target_id,
                                  title |-> title,
                                  company_name |-> company_name,
                                  content_raw |-> content_raw,
                                  original_url |-> original_url,
                                  created_at |-> now,
                                  updated_at |-> now]},
             result |-> "NEW"]

\* The update hands the posting over to the calling target.
upsert_taking_ownership(rows, now, target_id, title, company_name, content_raw, original_url) ==
    LET existing == {r \in rows : r.original_url = original_url}
    IN IF existing # {}
       THEN LET first == CHOOSE r \in existing : \A q \in existing : r.id <= q.id
            IN IF first.content_raw = content_raw
               THEN [rows |-> rows, result |-> "SKIP"]
               ELSE [rows |-> {IF r.original_url = original_url
                               THEN [r EXCEPT !.crawl_target_id = target_id,
                                              !.title = title,
                                              !.company_name = company_name,
                                              !.content_raw = content_raw,
                                              !.updated_at = now]
                               ELSE r : r \in rows},
                     result |-> "UPDATED"]
       ELSE [rows |-> rows \cup {[id |-> Cardinality(rows) + 1,
                                  crawl_target_id |-> target_id,
                                  title |-> title,
                                  company_name |-> company_name,
                                  content_raw |-> content_raw,
                                  original_url |-> original_url,
                                  created_at |-> now,
                                  updated_at |-> now]},
             result |-> "NEW"]

\* db.upsert_job_posting on the job_postings table `rows` with the clock
\* reading `now`: the table afterwards and the returned classification.
upsert_job_posting(rows, now, target_id, title, company_name, content_raw, original_url) ==
    LET existing == {r \in rows : r.original_url = original_url}
    IN IF existing # {}
       THEN LET first == CHOOSE r \in existing : \A q \in existing : r.id <= q.id
            IN IF first.content_raw = content_raw
               THEN [rows |-> rows, result |-> "SKIP"]
               ELSE [rows |-> {IF r.original_url = original_url
                               THEN [r EXCEPT !.title = title,
                                              !.company_name = company_name,
                                              !.content_raw = content_raw,
                                              !.updated_at = now]
                               ELSE r : r \in rows},
                     result |-> "UPDATED"]
       ELSE [rows |-> rows \cup {[id |-> Cardinality(rows) + 1,
                                  crawl_target_id |-> target_id,
                                  title |-> title,
                                  company_name |-> company_name,
                                  content_raw |-> content_raw,
                                  original_url |-> original_url,
                                  created_at |-> now,
                                  updated_at |-> now]},
             result |-> "NEW"]

\* update_target_checked filtering on another column than id: no row matches.
update_target_checked_no_row(tbl, now, target_id) == tbl

\* db.update_target_checked on the crawl_targets table `tbl`.
update_target_checked(tbl, now, target_id) ==
    [t \in DOMAIN tbl |->
        IF t = target_id THEN [tbl[t] EXCEPT !.last_checked_at = now] ELSE tbl[t]]

\* update_target_hash clearing the error message of the target as well.
update_target_hash_clearing_error(tbl, now, target_id, new_hash) ==
    [t \in DOMAIN tbl |->
        IF t = target_id
        THEN [tbl[t] EXCEPT !.last_list_hash = new_hash, !.last_checked_at = now,
                            !.last_error = NoneText]
        ELSE tbl[t]]

\* db.update_target_hash on the crawl_targets table `tbl`.
update_target_hash(tbl, now, target_id, new_hash) ==
    [t \in DOMAIN tbl |->
        IF t = target_id
        THEN [tbl[t] EXCEPT !.last_list_hash = new_hash, !.last_checked_at = now]
        ELSE tbl[t]]

\* db.update_target_error(client, target_id, error_msg): the API adapters
\* import and call it, src/db.py does not hold it.  After the specification it
\* records the message in the target's last_error.
update_target_error(tbl, target_id, error_msg) ==
    [t \in DOMAIN tbl |->
        IF t = target_id THEN [tbl[t] EXCEPT !.last_error = error_msg] ELSE tbl[t]]

\* The decorator's retry test running on the attempt count before the increment.
fetch_url_retries_once_more(exc, n) == exc \in HTTPErrors /\ n <= MAX_RETRIES

\* The retry condition of fetch_url's decorator after attempt number n raised
\* exc: httpx errors are retried until MAX_RETRIES attempts were made.
fetch_url_retries(exc, n) == exc \in HTTPErrors /\ n < MAX_RETRIES

RECURSIVE Pow2(_)
Pow2(k) == IF k = 0 THEN 1 ELSE 2 * Pow2(k - 1)

Min(a, b) == IF a <= b THEN a ELSE b
Max(a, b) == IF a >= b THEN a ELSE b

\* wait_exponential with the exponent taken from the attempt number itself.
wait_exponential_from_attempt(attempt_number) ==
    Max(WaitMin, Min(RETRY_DELAY * Pow2(attempt_number), WaitMax))

\* tenacity's wait_exponential: the seconds slept after attempt number
\* attempt_number failed, multiplier * 2^(attempt_number - 1) clamped to
\* [min, max].
wait_exponential(attempt_number) ==
    Max(WaitMin, Min(RETRY_DELAY * Pow2(attempt_number - 1), WaitMax))

\* ------------------------------------------------------------------- state
VARIABLES
    crawl_targets,   \* store: target id -> row of crawl_targets
    job_postings,    \* store: the rows of job_postings
    clock,           \* the last reading of datetime.now
    pc,              \* where the program is
    targets,         \* crawl_all: the target rows main handed over
    idx,             \* crawl_all: position of the target being crawled
    total_stats,     \* crawl_all: the aggregate
    loc,             \* crawl_target / crawl_*_api: the locals
    crawls,          \* crawl_target calls made so far
    crawl_result,    \* how the last crawl_all ended: "returned" or "raised"
    exit_status,     \* what the last run of main exited with (-1: none yet)
    obs,             \* record of what the current crawl_target call did
    last_upsert      \* record of the last upsert_job_posting call of that call

vars == <<crawl_targets, job_postings, clock, pc, targets, idx, total_stats, loc,
          crawls, crawl_result, exit_status, obs, last_upsert>>

NoLoc ==
    [target_id |-> 0, parser_type |-> "", last_list_hash |-> NoneHash, stats |-> ZeroStats,
     attempt |-> 0, last_exc |-> "", wait |-> 0, list |-> <<>>, current_hash |-> NoneHash, i |-> 0]

NoObs ==
    [target_id |-> 0, parser_type |-> "", exit |-> "", stats |-> ZeroStats,
     hash_before |-> NoneHash, checked_before |-> NoneTime, computed_hash |-> NoneHash,
     list_attempts |-> 0, list_exc |-> "", upserts |-> 0, hash_writes |-> 0,
     checked_writes |-> 0, error_writes |-> 0, items |-> 0, seen |-> 0,
     rows_before |-> {}, results |-> <<>>]

NoUpsert ==
    [calls |-> 0, target_id |-> 0, title |-> <<>>, company_name |-> <<>>,
     content_raw |-> <<>>, original_url |-> <<>>, result |-> "", now |-> 0, before |-> {}]

TargetRows ==
    [parser_type : ParserTypes, is_active : BOOLEAN, last_list_hash : {NoneHash},
     last_checked_at : {NoneTime}, last_error : {NoneText}]

\* The tables after seeding: targets never crawled, no posting.  A target that
\* is not active is never read, so its kind is left at the default.
Init ==
    /\ crawl_targets \in [TargetIds -> TargetRows]
    /\ \A t \in TargetIds : ~crawl_targets[t].is_active => crawl_targets[t].parser_type = "generic"
    /\ job_postings = {}
    /\ clock = 0
    /\ pc = "idle"
    /\ targets = <<>>
    /\ idx = 0
    /\ total_stats = ZeroStats
    /\ loc = NoLoc
    /\ crawls = 0
    /\ crawl_result = "none"
    /\ exit_status = -1
    /\ obs = NoObs
    /\ last_upsert = NoUpsert

\* ----------------------------------------------------------------- helpers
Bump(st, k) == [st EXCEPT ![k] = @ + 1]

\* The aggregate taking over the stats of the target instead of adding them.
AddStats_overwriting(a, b) == [k \in StatKeys |-> b[k]]

AddStats(a, b) == [k \in StatKeys |-> a[k] + b[k]]

\* The orders in which the store can return the rows of the set S.
Orderings(S) ==
    {f \in [1..Cardinality(S) -> S] : \A a, b \in 1..Cardinality(S) : a # b => f[a] # f[b]}

\* Returns with main exiting 0 whatever the aggregate holds.
Returns_exit_zero(st, o) ==
    /\ total_stats' = AddStats(total_stats, st)
    /\ loc' = NoLoc
    /\ obs' = [o EXCEPT !.stats = st]
    /\ IF idx < Len(targets)
       THEN /\ pc' = "crawl_all"
            /\ UNCHANGED <<crawl_result, exit_status>>
       ELSE /\ pc' = "idle"
            /\ crawl_result' = "returned"
            /\ exit_status' = 0
    /\ UNCHANGED <<targets, idx, crawls>>

\* crawl_target returns st to crawl_all, which adds it to the aggregate; after
\* the last target crawl_all returns the aggregate and main exits, with 1 when
\* there were errors.
Returns(st, o) ==
    /\ total_stats' = AddStats(total_stats, st)
    /\ loc' = NoLoc
    /\ obs' = [o EXCEPT !.stats = st]
    /\ IF idx < Len(targets)
       THEN /\ pc' = "crawl_all"
            /\ UNCHANGED <<crawl_result, exit_status>>
       ELSE /\ pc' = "idle"
            /\ crawl_result' = "returned"
            /\ exit_status' = IF total_stats'["ERROR"] > 0 THEN 1 ELSE 0
    /\ UNCHANGED <<targets, idx, crawls>>

\* An exception leaves crawl_target: crawl_all and main have no handler, the
\* interpreter ends the process with a traceback and status 1.
Raises(o) ==
    /\ pc' = "idle"
    /\ crawl_result' = "raised"
    /\ exit_status' = 1
    /\ loc' = NoLoc
    /\ obs' = o
    /\ UNCHANGED <<targets, idx, total_stats, crawls>>

\* ------------------------------------------------------------------ main
\* main up to the call of crawl_all: read the active targets (select "*":
\* the whole rows); none: exit 0.
StartPass ==
    /\ pc = "idle"
    /\ LET active == {t \in TargetIds : crawl_targets[t].is_active}
       IN /\ crawls + Cardinality(active) <= MaxCrawls
          /\ IF active = {}
             THEN /\ exit_status' = 0
                  /\ crawl_result' = "none"
                  /\ UNCHANGED <<pc, targets, idx, total_stats>>
             ELSE /\ \E order \in Orderings(active) :
                        targets' = [k \in 1..Len(order) |->
                                       [id |-> order[k]] @@ crawl_targets[order[k]]]
                  /\ pc' = "crawl_all"
                  /\ idx' = 0
                  /\ total_stats' = ZeroStats
                  /\ crawl_result' = "none"
                  /\ exit_status' = -1
    /\ UNCHANGED <<crawl_targets, job_postings, clock, loc, crawls, obs, last_upsert>>

\* target.get("parser_type", "generic"): the default stands in for a key the
\* row does not have; a key that is there is returned as it is, null included.
parser_type_of(target) ==
    IF "parser_type" \in DOMAIN target THEN target.parser_type ELSE "generic"

\* crawl_all takes the next target; crawl_target reads it and dispatches.
NextTarget ==
    /\ pc = "crawl_all"
    /\ idx < Len(targets)
    /\ LET target == targets[idx + 1]
           parser_type == parser_type_of(target)
       IN /\ idx' = idx + 1
          /\ crawls' = crawls + 1
          /\ loc' = [NoLoc EXCEPT !.target_id = target.id,
                                  !.parser_type = parser_type,
                                  !.last_list_hash = target.last_list_hash]
          /\ obs' = [NoObs EXCEPT !.target_id = target.id,
                                  !.parser_type = parser_type,
                                  !.hash_before = crawl_targets[target.id].last_list_hash,
                                  !.checked_before = crawl_targets[target.id].last_checked_at,
                                  !.rows_before = job_postings]
          /\ pc' = IF parser_type \in API_PARSER_TYPES THEN "api_fetch" ELSE "list_fetch"
    /\ last_upsert' = NoUpsert
    /\ UNCHANGED <<crawl_targets, job_postings, clock, targets, total_stats, crawl_result,
                   exit_status>>

\* ------------------------------------------------- crawl_target, HTML path
\* The call upsert_job_posting(...) of an item loop and stats[result] += 1.
Upserts(title, company_name, content_raw, original_url, o) ==
    LET now == clock + 1
        r == upsert_job_posting(job_postings, now, loc.target_id, title, company_name,
                                content_raw, original_url)
    IN /\ job_postings' = r.rows
       /\ clock' = now
       /\ last_upsert' = [calls |-> last_upsert.calls + 1, target_id |-> loc.target_id,
                          title |-> title, company_name |-> company_name,
                          content_raw |-> content_raw, original_url |-> original_url,
                          result |-> r.result, now |-> now, before |-> job_postings]
       /\ loc' = [loc EXCEPT !.stats = Bump(@, r.result), !.i = @ + 1, !.attempt = 0,
                             !.last_exc = "", !.wait = 0]
       /\ obs' = [o EXCEPT !.upserts = @ + 1, !.seen = @ + 1,
                           !.stats = Bump(loc.stats, r.result),
                           !.results = Append(@, r.result)]
       /\ pc' = IF loc.i = Len(loc.list) THEN "update_hash" ELSE pc
       /\ UNCHANGED <<crawl_targets, targets, idx, total_stats, crawls, crawl_result,
                      exit_status>>

\* Continues leaving the loop at the first item that failed.
Continues_breaking_on_error(st, o) ==
    /\ loc' = [loc EXCEPT !.stats = st, !.i = @ + 1, !.attempt = 0, !.last_exc = "",
                          !.wait = 0]
    /\ obs' = [o EXCEPT !.seen = @ + 1, !.stats = st,
                        !.results = Append(@, IF st = loc.stats THEN "none" ELSE "ERROR")]
    /\ pc' = IF loc.i = Len(loc.list) \/ st # loc.stats THEN "update_hash" ELSE pc
    /\ UNCHANGED <<crawl_targets, job_postings, clock, targets, idx, total_stats, crawls,
                   crawl_result, exit_status, last_upsert>>

\* The loop goes on to the next item with the stats st and no store call.
Continues(st, o) ==
    /\ loc' = [loc EXCEPT !.stats = st, !.i = @ + 1, !.attempt = 0, !.last_exc = "",
                          !.wait = 0]
    /\ obs' = [o EXCEPT !.seen = @ + 1, !.stats = st,
                        !.results = Append(@, IF st = loc.stats THEN "none" ELSE "ERROR")]
    /\ pc' = IF loc.i = Len(loc.list) THEN "update_hash" ELSE pc
    /\ UNCHANGED <<crawl_targets, job_postings, clock, targets, idx, total_stats, crawls,
                   crawl_result, exit_status, last_upsert>>

\* ListFetchOk going on to the list parse whatever the stored hash is.
ListFetchOk_without_comparison ==
    /\ pc = "list_fetch"
    /\ \E list_html \in ListPages, parses \in BOOLEAN :
          LET current_hash == compute_hash(normalize_html(list_html))
              job_items == parse_list(list_html)
          IN IF loc.parser_type \notin PARSER_REGISTRY
             THEN /\ Returns(Bump(loc.stats, "ERROR"), [obs EXCEPT !.exit = "unknown_parser"])
                  /\ UNCHANGED <<crawl_targets, job_postings, clock, last_upsert>>
             ELSE IF FALSE
             THEN /\ crawl_targets' = update_target_checked(crawl_targets, clock + 1,
                                                            loc.target_id)
                  /\ clock' = clock + 1
                  /\ Returns(loc.stats, [obs EXCEPT !.exit = "unchanged",
                                                    !.computed_hash = current_hash,
                                                    !.checked_writes = @ + 1])
                  /\ UNCHANGED <<job_postings, last_upsert>>
             ELSE IF ~parses
             THEN /\ Returns(Bump(loc.stats, "ERROR"),
                             [obs EXCEPT !.exit = "parse_failed",
                                         !.computed_hash = current_hash])
                  /\ UNCHANGED <<crawl_targets, job_postings, clock, last_upsert>>
             ELSE IF job_items = <<>>
             THEN /\ crawl_targets' = update_target_hash(crawl_targets, clock + 1,
                                                         loc.target_id, current_hash)
                  /\ clock' = clock + 1
                  /\ Returns(loc.stats, [obs EXCEPT !.exit = "no_items",
                                                    !.computed_hash = current_hash,
                                                    !.hash_writes = @ + 1])
                  /\ UNCHANGED <<job_postings, last_upsert>>
             ELSE /\ loc' = [loc EXCEPT !.list = job_items, !.current_hash = current_hash,
                                        !.i = 1, !.attempt = 0, !.last_exc = "",
                                        !.wait = 0]
                  /\ obs' = [obs EXCEPT !.computed_hash = current_hash,
                                        !.items = Len(job_items)]
                  /\ pc' = "detail_fetch"
                  /\ UNCHANGED <<crawl_targets, job_postings, clock, targets, idx,
                                 total_stats, crawls, crawl_result, exit_status, last_upsert>>

\* ListFetchOk with the list parse moved before the hash comparison.
ListFetchOk_parsing_first ==
    /\ pc = "list_fetch"
    /\ \E list_html \in ListPages, parses \in BOOLEAN :
          LET current_hash == compute_hash(normalize_html(list_html))
              job_items == parse_list(list_html)
          IN IF loc.parser_type \notin PARSER_REGISTRY
             THEN /\ Returns(Bump(loc.stats, "ERROR"), [obs EXCEPT !.exit = "unknown_parser"])
                  /\ UNCHANGED <<crawl_targets, job_postings, clock, last_upsert>>
             ELSE IF ~parses
             THEN /\ Returns(Bump(loc.stats, "ERROR"),
                             [obs EXCEPT !.exit = "parse_failed",
                                         !.computed_hash = current_hash])
                  /\ UNCHANGED <<crawl_targets, job_postings, clock, last_upsert>>
             ELSE IF current_hash = loc.last_list_hash
             THEN /\ crawl_targets' = update_target_checked(crawl_targets, clock + 1,
                                                            loc.target_id)
                  /\ clock' = clock + 1
                  /\ Returns(loc.stats, [obs EXCEPT !.exit = "unchanged",
                                                    !.computed_hash = current_hash,
                                                    !.checked_writes = @ + 1])
                  /\ UNCHANGED <<job_postings, last_upsert>>
             ELSE IF job_items = <<>>
             THEN /\ crawl_targets' = update_target_hash(crawl_targets, clock + 1,
                                                         loc.target_id, current_hash)
                  /\ clock' = clock + 1
                  /\ Returns(loc.stats, [obs EXCEPT !.exit = "no_items",
                                                    !.computed_hash = current_hash,
                                                    !.hash_writes = @ + 1])
                  /\ UNCHANGED <<job_postings, last_upsert>>
             ELSE /\ loc' = [loc EXCEPT !.list = job_items, !.current_hash = current_hash,
                                        !.i = 1, !.attempt = 0, !.last_exc = "",
                                        !.wait = 0]
                  /\ obs' = [obs EXCEPT !.computed_hash = current_hash,
                                        !.items = Len(job_items)]
                  /\ pc' = "detail_fetch"
                  /\ UNCHANGED <<crawl_targets, job_postings, clock, targets, idx,
                                 total_stats, crawls, crawl_result, exit_status, last_upsert>>

\* An attempt of fetch_url(list_url) answers with a page: fetch_url returns it
\* and crawl_target goes on to the parser, the hash comparison and the list
\* parse (which can raise).
ListFetchOk ==
    /\ pc = "list_fetch"
    /\ \E list_html \in ListPages, parses \in BOOLEAN :
          LET current_hash == compute_hash(normalize_html(list_html))
              job_items == parse_list(list_html)
          IN IF loc.parser_type \notin PARSER_REGISTRY
             THEN /\ Returns(Bump(loc.stats, "ERROR"), [obs EXCEPT !.exit = "unknown_parser"])
                  /\ UNCHANGED <<crawl_targets, job_postings, clock, last_upsert>>
             ELSE IF current_hash = loc.last_list_hash
             THEN /\ crawl_targets' = update_target_checked(crawl_targets, clock + 1,
                                                            loc.target_id)
                  /\ clock' = clock + 1
                  /\ Returns(loc.stats, [obs EXCEPT !.exit = "unchanged",
                                                    !.computed_hash = current_hash,
                                                    !.checked_writes = @ + 1])
                  /\ UNCHANGED <<job_postings, last_upsert>>
             ELSE IF ~parses
             THEN /\ Returns(Bump(loc.stats, "ERROR"),
                             [obs EXCEPT !.exit = "parse_failed",
                                         !.computed_hash = current_hash])
                  /\ UNCHANGED <<crawl_targets, job_postings, clock, last_upsert>>
             ELSE IF job_items = <<>>
             THEN /\ crawl_targets' = update_target_hash(crawl_targets, clock + 1,
                                                         loc.target_id, current_hash)
                  /\ clock' = clock + 1
                  /\ Returns(loc.stats, [obs EXCEPT !.exit = "no_items",
                                                    !.computed_hash = current_hash,
                                                    !.hash_writes = @ + 1])
                  /\ UNCHANGED <<job_postings, last_upsert>>
             ELSE /\ loc' = [loc EXCEPT !.list = job_items, !.current_hash = current_hash,
                                        !.i = 1, !.attempt = 0, !.last_exc = "",
                                        !.wait = 0]
                  /\ obs' = [obs EXCEPT !.computed_hash = current_hash,
                                        !.items = Len(job_items)]
                  /\ pc' = "detail_fetch"
                  /\ UNCHANGED <<crawl_targets, job_postings, clock, targets, idx,
                                 total_stats, crawls, crawl_result, exit_status, last_upsert>>

\* An attempt of fetch_url(list_url) raises: the decorator waits and tries
\* again, or the exception leaves fetch_url and the target counts as failed.
ListFetchFail ==
    /\ pc = "list_fetch"
    /\ \E exc \in HTTPErrors \cup OtherErrors :
          LET n == loc.attempt + 1
          IN IF fetch_url_retries(exc, n)
             THEN /\ loc' = [loc EXCEPT !.attempt = n, !.last_exc = exc,
                                             !.wait = wait_exponential(n)]
                  /\ UNCHANGED <<pc, targets, idx, total_stats, crawls, crawl_result,
                                 exit_status, obs>>
             ELSE Returns(Bump(loc.stats, "ERROR"),
                          [obs EXCEPT !.list_attempts = n, !.list_exc = exc,
                                      !.exit = "list_fetch_failed"])
    /\ UNCHANGED <<crawl_targets, job_postings, clock, last_upsert>>

\* An attempt of fetch_url(item.url) answers: parse the detail page, upsert.
DetailFetchOk ==
    /\ pc = "detail_fetch"
    /\ \E detail_html \in DetailPages :
          LET item == loc.list[loc.i]
              content_raw == parse_detail(detail_html)
          IN IF content_raw = <<>>
             THEN Continues(loc.stats, obs)
             ELSE Upserts(item.title, item.company_name, content_raw, item.url, obs)

\* An attempt of fetch_url(item.url) raises: retry, or count the item as ERROR.
DetailFetchFail ==
    /\ pc = "detail_fetch"
    /\ \E exc \in HTTPErrors \cup OtherErrors :
          LET n == loc.attempt + 1
          IN IF fetch_url_retries(exc, n)
             THEN /\ loc' = [loc EXCEPT !.attempt = n, !.last_exc = exc,
                                             !.wait = wait_exponential(n)]
                  /\ UNCHANGED <<crawl_targets, job_postings, clock, pc, targets, idx,
                                 total_stats, crawls, crawl_result, exit_status, obs,
                                 last_upsert>>
             ELSE Continues(Bump(loc.stats, "ERROR"), obs)

\* The detail page arrived, but parse_detail or the store call of
\* upsert_job_posting raises before anything is written: the handler of the
\* loop body counts the item as ERROR.
DetailItemRaises ==
    /\ pc = "detail_fetch"
    /\ Continues(Bump(loc.stats, "ERROR"), obs)

\* The canonical URLs of the items of the list an item loop runs over.
ListUrls(parser_type, list) ==
    IF parser_type \in API_PARSER_TYPES
    THEN {original_url_of(parser_type, list[k]) : k \in 1..Len(list)} \ {<<>>}
    ELSE {list[k].url : k \in 1..Len(list)}

\* FinishTarget deleting the target's postings that the list no longer holds.
FinishTarget_pruning ==
    /\ pc = "update_hash"
    /\ crawl_targets' = update_target_hash(crawl_targets, clock + 1, loc.target_id,
                                           loc.current_hash)
    /\ clock' = clock + 1
    /\ Returns(loc.stats, [obs EXCEPT !.exit = "done", !.hash_writes = @ + 1])
    /\ job_postings' = {r \in job_postings :
                           \/ r.crawl_target_id # loc.target_id
                           \/ r.original_url \in ListUrls(loc.parser_type, loc.list)}
    /\ UNCHANGED last_upsert

\* FinishTarget keeping the old hash when an item of the loop failed.
FinishTarget_unless_errors ==
    /\ pc = "update_hash"
    /\ IF loc.stats["ERROR"] > 0
       THEN /\ Returns(loc.stats, [obs EXCEPT !.exit = "done"])
            /\ UNCHANGED <<crawl_targets, clock>>
       ELSE /\ crawl_targets' = update_target_hash(crawl_targets, clock + 1, loc.target_id,
                                                   loc.current_hash)
            /\ clock' = clock + 1
            /\ Returns(loc.stats, [obs EXCEPT !.exit = "done", !.hash_writes = @ + 1])
    /\ UNCHANGED <<job_postings, last_upsert>>

\* After the item loop of any adapter: update_target_hash and return stats.
FinishTarget ==
    /\ pc = "update_hash"
    /\ crawl_targets' = update_target_hash(crawl_targets, clock + 1, loc.target_id,
                                           loc.current_hash)
    /\ clock' = clock + 1
    /\ Returns(loc.stats, [obs EXCEPT !.exit = "done", !.hash_writes = @ + 1])
    /\ UNCHANGED <<job_postings, last_upsert>>

\* ------------------------------------------------------ the API adapters
\* How the list request of an API adapter can fail with an exception the
\* adapter handles: the request or the status (requests.RequestException), a
\* body that is no JSON, and for Toss a resultType other than SUCCESS.
ApiFailures(parser_type) ==
    HTTPErrors \cup {"invalid_json"}
    \cup (IF parser_type = "toss_job_groups_api" THEN {"non_success"} ELSE {})

\* The error_msg the handlers build for the failure exc.
error_msg_of(exc) ==
    IF exc \in HTTPErrors THEN <<"Failed to fetch API", exc>>
    ELSE IF exc = "invalid_json" THEN <<"Invalid JSON response">>
    ELSE <<"API returned non-SUCCESS">>

\* ApiListArrives going on to the job loop whatever the stored hash is.
ApiListArrives_without_comparison(jobs) ==
    LET o == obs
        current_hash == _compute_list_hash(jobs)
    IN IF jobs = <<>>
       THEN /\ crawl_targets' = update_target_checked(crawl_targets, clock + 1,
                                                      loc.target_id)
            /\ clock' = clock + 1
            /\ Returns(loc.stats, [o EXCEPT !.exit = "empty", !.checked_writes = @ + 1])
       ELSE IF FALSE
       THEN /\ crawl_targets' = update_target_checked(crawl_targets, clock + 1,
                                                      loc.target_id)
            /\ clock' = clock + 1
            /\ Returns(loc.stats, [o EXCEPT !.exit = "unchanged",
                                            !.computed_hash = current_hash,
                                            !.checked_writes = @ + 1])
       ELSE /\ loc' = [loc EXCEPT !.list = jobs, !.current_hash = current_hash, !.i = 1]
            /\ obs' = [o EXCEPT !.computed_hash = current_hash, !.items = Len(jobs)]
            /\ pc' = "api_items"
            /\ UNCHANGED <<crawl_targets, clock, targets, idx, total_stats, crawls,
                           crawl_result, exit_status>>

\* ApiListArrives taking the unchanged exit only when every job of the list
\* that has a URL is in the store, and running the loop again otherwise.
ApiListArrives_retrying_missing(jobs) ==
    LET o == obs
        current_hash == _compute_list_hash(jobs)
    IN IF jobs = <<>>
       THEN /\ crawl_targets' = update_target_checked(crawl_targets, clock + 1,
                                                      loc.target_id)
            /\ clock' = clock + 1
            /\ Returns(loc.stats, [o EXCEPT !.exit = "empty", !.checked_writes = @ + 1])
       ELSE IF /\ current_hash = loc.last_list_hash
               /\ ListUrls(loc.parser_type, jobs) \subseteq
                     {r.original_url : r \in job_postings}
       THEN /\ crawl_targets' = update_target_checked(crawl_targets, clock + 1,
                                                      loc.target_id)
            /\ clock' = clock + 1
            /\ Returns(loc.stats, [o EXCEPT !.exit = "unchanged",
                                            !.computed_hash = current_hash,
                                            !.checked_writes = @ + 1])
       ELSE /\ loc' = [loc EXCEPT !.list = jobs, !.current_hash = current_hash, !.i = 1]
            /\ obs' = [o EXCEPT !.computed_hash = current_hash, !.items = Len(jobs)]
            /\ pc' = "api_items"
            /\ UNCHANGED <<crawl_targets, clock, targets, idx, total_stats, crawls,
                           crawl_result, exit_status>>

\* ApiListArrives treating the empty list like any other: hash it, store it.
ApiListArrives_hashing_empty(jobs) ==
    LET o == obs
        current_hash == _compute_list_hash(jobs)
    IN IF jobs = <<>>
       THEN /\ crawl_targets' = update_target_hash(crawl_targets, clock + 1,
                                                   loc.target_id, current_hash)
            /\ clock' = clock + 1
            /\ Returns(loc.stats, [o EXCEPT !.exit = "empty",
                                            !.computed_hash = current_hash,
                                            !.hash_writes = @ + 1])
       ELSE IF current_hash = loc.last_list_hash
       THEN /\ crawl_targets' = update_target_checked(crawl_targets, clock + 1,
                                                      loc.target_id)
            /\ clock' = clock + 1
            /\ Returns(loc.stats, [o EXCEPT !.exit = "unchanged",
                                            !.computed_hash = current_hash,
                                            !.checked_writes = @ + 1])
       ELSE /\ loc' = [loc EXCEPT !.list = jobs, !.current_hash = current_hash, !.i = 1]
            /\ obs' = [o EXCEPT !.computed_hash = current_hash, !.items = Len(jobs)]
            /\ pc' = "api_items"
            /\ UNCHANGED <<crawl_targets, clock, targets, idx, total_stats, crawls,
                           crawl_result, exit_status>>

\* ApiListArrives storing the new hash before the job loop starts.
ApiListArrives_hash_first(jobs) ==
    LET o == obs
        current_hash == _compute_list_hash(jobs)
    IN IF jobs = <<>>
       THEN /\ crawl_targets' = update_target_checked(crawl_targets, clock + 1,
                                                      loc.target_id)
            /\ clock' = clock + 1
            /\ Returns(loc.stats, [o EXCEPT !.exit = "empty", !.checked_writes = @ + 1])
       ELSE IF current_hash = loc.last_list_hash
       THEN /\ crawl_targets' = update_target_checked(crawl_targets, clock + 1,
                                                      loc.target_id)
            /\ clock' = clock + 1
            /\ Returns(loc.stats, [o EXCEPT !.exit = "unchanged",
                                            !.computed_hash = current_hash,
                                            !.checked_writes = @ + 1])
       ELSE /\ loc' = [loc EXCEPT !.list = jobs, !.current_hash = current_hash, !.i = 1]
            /\ obs' = [o EXCEPT !.computed_hash = current_hash, !.items = Len(jobs)]
            /\ pc' = "api_items"
            /\ crawl_targets' = update_target_hash(crawl_targets, clock + 1, loc.target_id,
                                                   current_hash)
            /\ clock' = clock + 1
            /\ UNCHANGED <<targets, idx, total_stats, crawls, crawl_result, exit_status>>

\* The list request answers with a job list (Toss: the primary jobs of the
\* groups; Kakao: the jobs of all parts and pages): empty list, hash check.
ApiListArrives(jobs) ==
    LET o == obs
        current_hash == _compute_list_hash(jobs)
    IN IF jobs = <<>>
       THEN /\ crawl_targets' = update_target_checked(crawl_targets, clock + 1,
                                                      loc.target_id)
            /\ clock' = clock + 1
            /\ Returns(loc.stats, [o EXCEPT !.exit = "empty", !.checked_writes = @ + 1])
       ELSE IF current_hash = loc.last_list_hash
       THEN /\ crawl_targets' = update_target_checked(crawl_targets, clock + 1,
                                                      loc.target_id)
            /\ clock' = clock + 1
            /\ Returns(loc.stats, [o EXCEPT !.exit = "unchanged",
                                            !.computed_hash = current_hash,
                                            !.checked_writes = @ + 1])
       ELSE /\ loc' = [loc EXCEPT !.list = jobs, !.current_hash = current_hash, !.i = 1]
            /\ obs' = [o EXCEPT !.computed_hash = current_hash, !.items = Len(jobs)]
            /\ pc' = "api_items"
            /\ UNCHANGED <<crawl_targets, clock, targets, idx, total_stats, crawls,
                           crawl_result, exit_status>>

ApiFetchOk ==
    /\ pc = "api_fetch"
    /\ \E jobs \in JobLists : ApiListArrives(jobs)
    /\ UNCHANGED <<job_postings, last_upsert>>

\* ApiFetchFail recording the error without counting it.
ApiFetchFail_uncounted ==
    /\ pc = "api_fetch"
    /\ \E exc \in ApiFailures(loc.parser_type) :
          /\ crawl_targets' = update_target_error(crawl_targets, loc.target_id,
                                                  error_msg_of(exc))
          /\ Returns(loc.stats,
                     [obs EXCEPT !.list_attempts = 1, !.list_exc = exc,
                                 !.exit = "api_fetch_failed", !.error_writes = @ + 1])
    /\ UNCHANGED <<job_postings, clock, last_upsert>>

\* ApiFetchFail clearing the stored fingerprint along with recording the error.
ApiFetchFail_resetting_hash ==
    /\ pc = "api_fetch"
    /\ \E exc \in ApiFailures(loc.parser_type) :
          /\ crawl_targets' = update_target_hash(
                                  update_target_error(crawl_targets, loc.target_id,
                                                      error_msg_of(exc)),
                                  clock + 1, loc.target_id, NoneHash)
          /\ clock' = clock + 1
          /\ Returns(Bump(loc.stats, "ERROR"),
                     [obs EXCEPT !.list_attempts = 1, !.list_exc = exc,
                                 !.exit = "api_fetch_failed", !.error_writes = @ + 1])
    /\ UNCHANGED <<job_postings, last_upsert>>

\* The list request fails, once: the handler records the error on the target,
\* counts one ERROR and returns.
ApiFetchFail ==
    /\ pc = "api_fetch"
    /\ \E exc \in ApiFailures(loc.parser_type) :
          /\ crawl_targets' = update_target_error(crawl_targets, loc.target_id,
                                                  error_msg_of(exc))
          /\ Returns(Bump(loc.stats, "ERROR"),
                     [obs EXCEPT !.list_attempts = 1, !.list_exc = exc,
                                 !.exit = "api_fetch_failed", !.error_writes = @ + 1])
    /\ UNCHANGED <<job_postings, clock, last_upsert>>

\* The list request answers with JSON that is no object (a list, a number):
\* payload.get raises AttributeError, which no handler of the adapter catches.
ApiPayloadRaises ==
    /\ pc = "api_fetch"
    /\ Raises([obs EXCEPT !.list_attempts = 1, !.list_exc = "not_object",
                          !.exit = "AttributeError"])
    /\ UNCHANGED <<crawl_targets, job_postings, clock, last_upsert>>

\* ApiItem counting a job without URL as SKIP instead of passing over it.
ApiItem_counting_unlinked ==
    /\ pc = "api_items"
    /\ LET job == loc.list[loc.i]
           original_url == original_url_of(loc.parser_type, job)
       IN IF original_url = <<>>
          THEN Continues(Bump(loc.stats, "SKIP"), obs)
          ELSE Upserts(job.title, company_name_of(loc.parser_type, job),
                       _build_content_raw(job), original_url, obs)

\* One turn of the job loop: skip a job without URL, else build the posting
\* and upsert it.
ApiItem ==
    /\ pc = "api_items"
    /\ LET job == loc.list[loc.i]
           original_url == original_url_of(loc.parser_type, job)
       IN IF original_url = <<>>
          THEN Continues(loc.stats, obs)
          ELSE Upserts(job.title, company_name_of(loc.parser_type, job),
                       _build_content_raw(job), original_url, obs)

\* One turn of the job loop in which building the posting raises (metadata or
\* location of another shape than the adapter reads) or the store call of
\* upsert_job_posting raises before anything is written: the item counts as
\* ERROR.
ApiItemRaises ==
    /\ pc = "api_items"
    /\ original_url_of(loc.parser_type, loc.list[loc.i]) # <<>>
    /\ Continues(Bump(loc.stats, "ERROR"), obs)

\* ------------------------------------------------------------ specification
Next ==
    \/ StartPass
    \/ NextTarget
    \/ ListFetchOk
    \/ ListFetchFail
    \/ DetailFetchOk
    \/ DetailFetchFail
    \/ DetailItemRaises
    \/ ApiFetchOk
    \/ ApiFetchFail
    \/ ApiPayloadRaises
    \/ ApiItem
    \/ ApiItemRaises
    \/ FinishTarget

Spec == Init /\ [][Next]_vars

\* ------------------------------------------------ one API target, 3 jobs
\* One active API target whose upstream lists the jobs 1, 2 and 3, each in
\* one of its revisions.  The jobs are well formed: building their postings
\* does not raise.
ThreeJobLists == {<<Job(1, a), Job(2, b), Job(3, c)>> : a, b, c \in Revisions}

ThreeJobInit ==
    /\ \E kind \in API_PARSER_TYPES :
          crawl_targets = [t \in TargetIds |->
                             [parser_type |-> IF t = 1 THEN kind ELSE "generic",
                              is_active |-> t = 1, last_list_hash |-> NoneHash,
                              last_checked_at |-> NoneTime, last_error |-> NoneText]]
    /\ job_postings = {}
    /\ clock = 0
    /\ pc = "idle"
    /\ targets = <<>>
    /\ idx = 0
    /\ total_stats = ZeroStats
    /\ loc = NoLoc
    /\ crawls = 0
    /\ crawl_result = "none"
    /\ exit_status = -1
    /\ obs = NoObs
    /\ last_upsert = NoUpsert

ThreeJobFetchOk ==
    /\ pc = "api_fetch"
    /\ \E jobs \in ThreeJobLists : ApiListArrives(jobs)
    /\ UNCHANGED <<job_postings, last_upsert>>

ThreeJobNext ==
    \/ StartPass
    \/ NextTarget
    \/ ThreeJobFetchOk
    \/ ApiFetchFail
    \/ ApiPayloadRaises
    \/ ApiItem
    \/ FinishTarget

ThreeJobSpec == ThreeJobInit /\ [][ThreeJobNext]_vars

\* ------------------------------------------ _compute_list_hash on its own
\* Two job lists of up to three jobs are handed to _compute_list_hash, as two
\* polls of one API target would.
HashedLists == UNION {[1..k -> ApiJobs] : k \in 0..3}

HashInit ==
    /\ loc \in [a : HashedLists, b : HashedLists]
    /\ obs = [a |-> NoneHash, b |-> NoneHash]
    /\ pc = "hash"
    /\ crawl_targets = [t \in TargetIds |->
                           [parser_type |-> "kakao_api", is_active |-> TRUE,
                            last_list_hash |-> NoneHash, last_checked_at |-> NoneTime,
                            last_error |-> NoneText]]
    /\ job_postings = {}
    /\ clock = 0
    /\ targets = <<>>
    /\ idx = 0
    /\ total_stats = ZeroStats
    /\ crawls = 0
    /\ crawl_result = "none"
    /\ exit_status = -1
    /\ last_upsert = NoUpsert

ComputeHashes ==
    /\ pc = "hash"
    /\ obs' = [a |-> _compute_list_hash(loc.a), b |-> _compute_list_hash(loc.b)]
    /\ pc' = "hashed"
    /\ UNCHANGED <<crawl_targets, job_postings, clock, targets, idx, total_stats, loc,
                   crawls, crawl_result, exit_status, last_upsert>>

HashNext == ComputeHashes

HashSpec == HashInit /\ [][HashNext]_vars

\* ------------------------------------------------------------------ claims
\* The stored rows with the URL of the last upsert call, before the call.
FoundBefore == {r \in last_upsert.before : r.original_url = last_upsert.original_url}

\* C1: an upsert whose URL no stored posting has returns NEW and adds exactly
\* one row, which carries the given target id, title, company, content and
\* URL and whose created_at equals its updated_at; the other rows stay.
C1_InsertsNew ==
    (last_upsert.calls > 0 /\ FoundBefore = {}) =>
        /\ last_upsert.result = "NEW"
        /\ last_upsert.before \subseteq job_postings
        /\ Cardinality(job_postings \ last_upsert.before) = 1
        /\ \A r \in job_postings \ last_upsert.before :
              /\ r.crawl_target_id = last_upsert.target_id
              /\ r.title = last_upsert.title
              /\ r.company_name = last_upsert.company_name
              /\ r.content_raw = last_upsert.content_raw
              /\ r.original_url = last_upsert.original_url
              /\ r.created_at = r.updated_at

C1_Witness ==
    /\ last_upsert.calls > 0
    /\ FoundBefore = {}
    /\ last_upsert.before # {}
    /\ Cardinality(job_postings) = Cardinality(last_upsert.before) + 1

\* C2: an upsert whose URL is stored with the same content payload returns
\* SKIP and writes nothing: the table is the one before the call.
C2_SkipWritesNothing ==
    (last_upsert.calls > 0
        /\ \E r \in FoundBefore : r.content_raw = last_upsert.content_raw) =>
        /\ last_upsert.result = "SKIP"
        /\ job_postings = last_upsert.before

C2_Witness ==
    /\ last_upsert.calls > 0
    /\ last_upsert.result = "SKIP"
    /\ \E r \in FoundBefore :
          r.content_raw = last_upsert.content_raw /\ r.updated_at < last_upsert.now

\* C3: an upsert whose URL is stored with another content payload returns
\* UPDATED; the row takes the incoming title, company and content, keeps its
\* created_at and gets the clock reading of the call, later than the old
\* updated_at; no row is added and no other row changes.
C3_UpdateInPlace ==
    (last_upsert.calls > 0
        /\ FoundBefore # {}
        /\ \A r \in FoundBefore : r.content_raw # last_upsert.content_raw) =>
        /\ last_upsert.result = "UPDATED"
        /\ Cardinality(job_postings) = Cardinality(last_upsert.before)
        /\ \A old \in last_upsert.before :
              IF old \in FoundBefore
              THEN \E r \in job_postings :
                      /\ r.id = old.id
                      /\ r.original_url = old.original_url
                      /\ r.title = last_upsert.title
                      /\ r.company_name = last_upsert.company_name
                      /\ r.content_raw = last_upsert.content_raw
                      /\ r.created_at = old.created_at
                      /\ r.updated_at = last_upsert.now
                      /\ r.updated_at > old.updated_at
              ELSE old \in job_postings

C3_Witness ==
    /\ last_upsert.calls > 0
    /\ last_upsert.result = "UPDATED"
    /\ \E old \in FoundBefore, r \in job_postings :
          /\ r.id = old.id
          /\ r.title # old.title
          /\ r.company_name # old.company_name
          /\ r.created_at < r.updated_at

\* C4: the store never holds two postings with the same canonical URL, also
\* when two targets yield the same URL.
C4_UrlUnique ==
    \A r1, r2 \in job_postings : r1.original_url = r2.original_url => r1 = r2

C4_Witness ==
    /\ last_upsert.calls > 0
    /\ \E r \in job_postings :
          /\ r.original_url = last_upsert.original_url
          /\ r.crawl_target_id # last_upsert.target_id

\* The crawl_target call `obs` describes has ended (returned or raised).
CrawlEnded == obs.exit # ""

\* The call hashed the list and found the digest the store held at its start.
SameFingerprint == obs.computed_hash # NoneHash /\ obs.computed_hash = obs.hash_before

\* C5: for every adapter kind, a crawl that computes the stored fingerprint
\* returns all-zero stats, calls no upsert, leaves the stored fingerprint as
\* it was and moves last_checked_at forward.
C5_UnchangedFingerprint ==
    (CrawlEnded /\ SameFingerprint) =>
        /\ obs.exit = "unchanged"
        /\ obs.stats = ZeroStats
        /\ obs.upserts = 0
        /\ obs.hash_writes = 0
        /\ crawl_targets[obs.target_id].last_list_hash = obs.hash_before
        /\ crawl_targets[obs.target_id].last_checked_at > obs.checked_before

C5_Witness ==
    /\ CrawlEnded
    /\ SameFingerprint
    /\ obs.parser_type \in API_PARSER_TYPES
    /\ job_postings # {}
    /\ crawl_targets[obs.target_id].last_checked_at = clock

\* The call found another digest than the stored one and got the item list.
InItemLoop == pc \in {"detail_fetch", "api_items"}

\* C6: on a crawl with a changed fingerprint the new fingerprint is written
\* once, after the last item: never while the item loop runs, and a crawl
\* that entered the loop ends only by writing it, whatever the items yielded.
C6_FingerprintAfterItems ==
    /\ obs.hash_writes <= 1
    /\ (InItemLoop \/ pc = "update_hash") =>
          /\ obs.hash_writes = 0
          /\ crawl_targets[obs.target_id].last_list_hash = obs.hash_before
          /\ obs.computed_hash # obs.hash_before
    /\ pc = "update_hash" => obs.seen = obs.items
    /\ (CrawlEnded /\ obs.items > 0) =>
          /\ obs.exit = "done"
          /\ obs.seen = obs.items
          /\ obs.hash_writes = 1
          /\ crawl_targets[obs.target_id].last_list_hash = obs.computed_hash

C6_Witness ==
    /\ obs.exit = "done"
    /\ obs.items = 2
    /\ obs.stats["ERROR"] > 0
    /\ obs.stats["NEW"] > 0
    /\ obs.hash_writes = 1
    /\ crawl_targets[obs.target_id].last_list_hash = obs.computed_hash

\* The ways a list request ends a crawl as a terminal failure of the target.
TerminalFailure == obs.exit \in {"list_fetch_failed", "api_fetch_failed"}

\* C7: every terminal adapter failure writes a message to the target's
\* last_error and counts exactly one ERROR for the target.
C7_LastErrorRecorded ==
    TerminalFailure =>
        /\ crawl_targets[obs.target_id].last_error # NoneText
        /\ obs.stats["ERROR"] = 1

\* C8: no failure leaves crawl_all: it returns the aggregate and every target
\* of its list is visited.
C8_NothingPropagates ==
    /\ crawl_result # "raised"
    /\ (pc = "idle" /\ crawl_result # "none") => idx = Len(targets)

\* C9: for every adapter kind a target fails on a transient upstream failure
\* only after MAX_RETRIES attempts of the list request.
C9_FailsAfterRetryBudget ==
    (TerminalFailure /\ obs.list_exc \in {"5xx", "transport"}) =>
        obs.list_attempts = MAX_RETRIES

\* C10: fetch_url attempts a request answered with a 4xx status once: no
\* attempt follows a 4xx and the error leaves the call after one attempt.
C10_NoRetryOn4xx ==
    /\ pc \in {"list_fetch", "detail_fetch"} => loc.last_exc # "4xx"
    /\ (obs.exit = "list_fetch_failed" /\ obs.list_exc = "4xx") => obs.list_attempts = 1

\* A fetch_url call is under way (list page or detail page).
Fetching == pc \in {"list_fetch", "detail_fetch"}

\* C11: a fetch_url call makes at most MAX_RETRIES attempts: while it runs
\* fewer than MAX_RETRIES attempts have failed, each with an error the
\* decorator retries, and a call that raises has made 1..MAX_RETRIES attempts,
\* all MAX_RETRIES of them when the error raised is one the decorator retries.
C11_FetchBounded ==
    /\ Fetching =>
          /\ loc.attempt \in 0..(MAX_RETRIES - 1)
          /\ loc.attempt > 0 => loc.last_exc \in HTTPErrors
    /\ obs.exit = "list_fetch_failed" =>
          /\ obs.list_attempts \in 1..MAX_RETRIES
          /\ obs.list_exc \in HTTPErrors => obs.list_attempts = MAX_RETRIES

C11_Witness ==
    /\ obs.exit = "list_fetch_failed"
    /\ obs.list_attempts = MAX_RETRIES
    /\ obs.list_exc = "transport"

\* Attempt numbers over which the wait function is examined.
AttemptNumbers == 1..6

\* C12: the wait after the first failed attempt is the base delay 2, after the
\* second 4; as a function of the attempt number the wait doubles until the
\* cap, never decreases and stays within [1, 10].
C12_WaitSchedule ==
    /\ (Fetching /\ loc.attempt = 0) => loc.wait = 0
    /\ (Fetching /\ loc.attempt = 1) => loc.wait = RETRY_DELAY
    /\ (Fetching /\ loc.attempt = 2) => loc.wait = 2 * RETRY_DELAY
    /\ Fetching =>
          \A k \in AttemptNumbers :
             /\ wait_exponential(k) >= 1
             /\ wait_exponential(k) <= 10
             /\ wait_exponential(k + 1) >= wait_exponential(k)
             /\ wait_exponential(k + 1) = Min(2 * wait_exponential(k), 10)

C12_Witness ==
    /\ pc = "detail_fetch"
    /\ loc.attempt = 2
    /\ loc.wait = 4
    /\ loc.last_exc = "5xx"

\* How often the job x occurs in the list s.
Occurrences(s, x) == Cardinality({k \in 1..Len(s) : s[k] = x})

\* The lists a and b hold the same jobs the same number of times.
IsPermutation(a, b) == \A x \in ApiJobs : Occurrences(a, x) = Occurrences(b, x)

\* The set of (id, last-modified) pairs of a job list.
PairSet(s) == {<<s[k].id, s[k].updated_at>> : k \in 1..Len(s)}

\* C13: two job lists that are permutations of each other get the same
\* fingerprint from _compute_list_hash.
C13_PermutationInvariant ==
    (pc = "hashed" /\ IsPermutation(loc.a, loc.b)) => obs.a = obs.b

C13_Witness ==
    /\ pc = "hashed"
    /\ Len(loc.a) = 3
    /\ loc.a # loc.b
    /\ IsPermutation(loc.a, loc.b)
    /\ Cardinality(PairSet(loc.a)) = 3
    /\ obs.a = obs.b

\* C14: two job lists get different fingerprints exactly when their sets of
\* (id, last-modified) pairs differ.
C14_FingerprintOfPairSet ==
    pc = "hashed" => (obs.a # obs.b <=> PairSet(loc.a) # PairSet(loc.b))

\* The items a crawl has counted so far, under any of the four keys.
Counted(st) == st["NEW"] + st["UPDATED"] + st["SKIP"] + st["ERROR"]

\* The jobs before position i of the API list in hand that have a canonical URL.
WithUrlBefore(i) ==
    {k \in 1..(i - 1) : original_url_of(loc.parser_type, loc.list[k]) # <<>>}

\* C15: an upstream item without canonical URL never reaches
\* upsert_job_posting and is counted under no key: in an API item loop the
\* counted items are exactly the jobs with a URL seen so far, the HTML item
\* list holds linked elements only, and no upsert call or stored posting has
\* an empty URL or one built from a missing identifier.
C15_NoUrlItemsDropped ==
    /\ (pc \in {"api_items", "update_hash"} /\ loc.parser_type \in API_PARSER_TYPES) =>
          /\ Counted(loc.stats) = Cardinality(WithUrlBefore(loc.i))
          /\ obs.upserts <= Cardinality(WithUrlBefore(loc.i))
    /\ (pc \in {"detail_fetch", "update_hash"} /\ loc.parser_type \in PARSER_REGISTRY) =>
          /\ \A k \in 1..Len(loc.list) : loc.list[k].url # <<>> /\ loc.list[k].url[2] # 0
          /\ Counted(loc.stats) <= loc.i - 1
    /\ last_upsert.calls > 0 =>
          last_upsert.original_url # <<>> /\ last_upsert.original_url[2] # 0
    /\ \A r \in job_postings : r.original_url # <<>> /\ r.original_url[2] # 0

C15_Witness ==
    /\ pc = "update_hash"
    /\ loc.parser_type = "daangn_greenhouse_api"
    /\ Len(loc.list) = 2
    /\ loc.list[2].id = 0
    /\ Counted(loc.stats) = 1
    /\ obs.upserts = 1
    /\ obs.seen = 2

\* The (id, last-modified) pairs under the stored and the computed fingerprint.
StoredPairs == obs.hash_before.text
ComputedPairs == obs.computed_hash.text

\* The pass got a list of the same three jobs as the stored fingerprint was
\* taken from, with the last-modified value of exactly one of them changed.
OneJobModified ==
    /\ obs.computed_hash # NoneHash
    /\ Len(StoredPairs) = 3
    /\ Len(ComputedPairs) = 3
    /\ \A k \in 1..3 : StoredPairs[k][1] = ComputedPairs[k][1]
    /\ Cardinality({k \in 1..3 : StoredPairs[k][2] # ComputedPairs[k][2]}) = 1

\* At the start of the pass the store held the three jobs as of the stored
\* fingerprint.
StoredAsFingerprinted ==
    \A k \in 1..Len(StoredPairs) :
       LET job == Job(StoredPairs[k][1], StoredPairs[k][2])
       IN \E r \in obs.rows_before :
             /\ r.original_url = original_url_of(obs.parser_type, job)
             /\ r.content_raw = _build_content_raw(job)

UpstreamItems ==
    IF obs.parser_type \in API_PARSER_TYPES
    THEN Cardinality({k \in 1..Len(ComputedPairs) : ComputedPairs[k][1] # 0})
    ELSE Len(SelectItems(ComputedPairs))

\* The canonical URLs of those upstream items.
UpstreamUrls ==
    IF obs.parser_type \in API_PARSER_TYPES
    THEN {original_url_of(obs.parser_type, Job(ComputedPairs[k][1], ComputedPairs[k][2])) :
             k \in {j \in 1..Len(ComputedPairs) : ComputedPairs[j][1] # 0}}
    ELSE {SelectItems(ComputedPairs)[k].url : k \in 1..Len(SelectItems(ComputedPairs))}

\* The crawl repeated a complete one with no upstream change: it computed the
\* stored fingerprint and every upstream item was stored when it began.
RepeatedPass ==
    /\ CrawlEnded
    /\ SameFingerprint
    /\ \A u \in UpstreamUrls : \E r \in obs.rows_before : r.original_url = u

\* C17 as claimed: a pass repeated with no upstream change after a complete
\* pass classifies every item as SKIP, its SKIP count being the number of
\* upstream items.
C17_SecondPassAllSkip ==
    RepeatedPass => obs.stats["SKIP"] = UpstreamItems

\* C17 as the code has it: a pass repeated with no upstream change after a
\* complete pass finds the fingerprint unchanged and classifies no item: no
\* item is looked at and SKIP is 0, whatever the number of upstream items.
C17_SecondPassCountsNothing ==
    RepeatedPass =>
        /\ obs.stats["SKIP"] = 0
        /\ obs.results = <<>>
        /\ obs.seen = 0

C17_Witness ==
    /\ RepeatedPass
    /\ UpstreamItems >= 1
    /\ \E r \in obs.rows_before : r.crawl_target_id = obs.target_id
    /\ obs.stats["SKIP"] = 0

\* C18: a pass repeated with no upstream change after a complete pass leaves
\* the job_postings table as it found it: no row changed in any field, none
\* inserted.
C18_SecondPassKeepsRows ==
    (CrawlEnded /\ SameFingerprint) => job_postings = obs.rows_before

C18_Witness ==
    /\ CrawlEnded
    /\ SameFingerprint
    /\ Cardinality(obs.rows_before) = 1
    /\ \E r \in job_postings : r.created_at < r.updated_at /\ r.updated_at < clock

\* C19: a Toss payload whose resultType is not SUCCESS ends the crawl of the
\* target with ERROR = 1 and nothing else counted, no upsert, the postings and
\* the stored fingerprint as before.
C19_NonSuccessIsTerminal ==
    obs.list_exc = "non_success" =>
        /\ obs.parser_type = "toss_job_groups_api"
        /\ obs.exit = "api_fetch_failed"
        /\ obs.stats = Bump(ZeroStats, "ERROR")
        /\ obs.upserts = 0
        /\ job_postings = obs.rows_before
        /\ obs.hash_writes = 0
        /\ crawl_targets[obs.target_id].last_list_hash = obs.hash_before

C19_Witness ==
    /\ obs.list_exc = "non_success"
    /\ obs.hash_before # NoneHash
    /\ obs.rows_before # {}
    /\ obs.stats["ERROR"] = 1

\* C20: in the HTML adapter a list page whose hash equals the stored one is
\* not parsed (the crawl ends as unchanged, never as a parse failure), no
\* detail page is fetched and no posting is upserted.
C20_UnchangedPageNotParsed ==
    (obs.parser_type \notin API_PARSER_TYPES /\ SameFingerprint) =>
        /\ obs.exit = "unchanged"
        /\ obs.items = 0
        /\ obs.seen = 0
        /\ obs.upserts = 0
        /\ last_upsert.calls = 0
        /\ job_postings = obs.rows_before

C20_Witness ==
    /\ obs.parser_type = "generic"
    /\ SameFingerprint
    /\ obs.exit = "unchanged"
    /\ Len(SelectItems(ComputedPairs)) = 2
    /\ job_postings # {}

\* ------------------------------------------------------------------- C21
\* The number of items of the current call that were counted as ERROR.
ErrorsIn(results) == Cardinality({k \in 1..Len(results) : results[k] = "ERROR"})

\* C21: in every adapter an item that fails (detail fetch, extraction, store
\* call) adds exactly 1 to ERROR and writes nothing, and the items after it
\* are still processed: ERROR is the number of failed items, every item of
\* the list has an outcome when the loop is left, and only the items that
\* neither failed nor were dropped reached the store.
C21_ItemErrorsCounted ==
    (obs.items > 0 /\ obs.exit \in {"", "done"}) =>
        /\ Len(obs.results) = obs.seen
        /\ obs.stats["ERROR"] = ErrorsIn(obs.results)
        /\ obs.upserts =
              Cardinality({k \in 1..Len(obs.results) : obs.results[k] \notin {"ERROR", "none"}})
        /\ pc \in {"detail_fetch", "api_items"} => obs.seen = loc.i - 1 /\ loc.i <= obs.items
        /\ (pc = "update_hash" \/ obs.exit = "done") => obs.seen = obs.items

\* A call whose first item failed and whose second item was stored as NEW.
C21_Witness ==
    /\ obs.exit = "done"
    /\ obs.items = 2
    /\ obs.results = <<"ERROR", "NEW">>
    /\ obs.stats["ERROR"] = 1
    /\ obs.stats["NEW"] = 1

\* ------------------------------------------- one pass in two target orders
\* The job loop of an API adapter from job i on, as a function of the store:
\* the rows, the clock and the stats it ends with.
RECURSIVE JobLoop(_, _, _, _, _, _, _)
JobLoop(rows, now, stats, target_id, parser_type, jobs, i) ==
    IF i > Len(jobs)
    THEN [rows |-> rows, now |-> now, stats |-> stats]
    ELSE LET job == jobs[i]
             original_url == original_url_of(parser_type, job)
         IN IF original_url = <<>>
            THEN JobLoop(rows, now, stats, target_id, parser_type, jobs, i + 1)
            ELSE LET r == upsert_job_posting(rows, now + 1, target_id, job.title,
                                             company_name_of(parser_type, job),
                                             _build_content_raw(job), original_url)
                 IN JobLoop(r.rows, now + 1, Bump(stats, r.result), target_id,
                            parser_type, jobs, i + 1)

\* One call of an API adapter whose list request answers with jobs and whose
\* items do not fail: nothing to do on an empty or an unchanged list.
crawl_api_target(rows, now, target, jobs) ==
    IF jobs = <<>> \/ _compute_list_hash(jobs) = target.last_list_hash
    THEN [rows |-> rows, now |-> now + 1, stats |-> ZeroStats,
          last_list_hash |-> target.last_list_hash]
    ELSE LET r == JobLoop(rows, now, ZeroStats, target.id, target.parser_type, jobs, 1)
         IN [rows |-> r.rows, now |-> r.now + 1, stats |-> r.stats,
             last_list_hash |-> _compute_list_hash(jobs)]

\* crawl_all from target k of the list on, upstream[t] being what the list
\* request of target t answers: the store and the aggregate it ends with.
RECURSIVE crawl_all_from(_, _, _, _, _, _)
crawl_all_from(rows, now, total, target_list, upstream, k) ==
    IF k > Len(target_list)
    THEN [rows |-> rows, total_stats |-> total]
    ELSE LET r == crawl_api_target(rows, now, target_list[k], upstream[target_list[k].id])
         IN crawl_all_from(r.rows, r.now, AddStats(total, r.stats), target_list, upstream,
                           k + 1)

\* The target list of a first pass over the API targets order[1], order[2], ...
FirstPassTargets(order, kinds) ==
    [k \in 1..Len(order) |->
        [id |-> order[k], parser_type |-> kinds[order[k]], last_list_hash |-> NoneHash]]

\* Two never-crawled API targets and what their list requests answer; the
\* first pass is run over the empty store once in each order of the targets.
OrderInit ==
    /\ loc \in [kinds : [TargetIds -> API_PARSER_TYPES], upstream : [TargetIds -> JobLists]]
    /\ obs = [forward |-> [rows |-> {}, total_stats |-> ZeroStats],
              backward |-> [rows |-> {}, total_stats |-> ZeroStats]]
    /\ pc = "order"
    /\ crawl_targets = [t \in TargetIds |->
                           [parser_type |-> loc.kinds[t], is_active |-> TRUE,
                            last_list_hash |-> NoneHash, last_checked_at |-> NoneTime,
                            last_error |-> NoneText]]
    /\ job_postings = {}
    /\ clock = 0
    /\ targets = <<>>
    /\ idx = 0
    /\ total_stats = ZeroStats
    /\ crawls = 0
    /\ crawl_result = "none"
    /\ exit_status = -1
    /\ last_upsert = NoUpsert

RunBothOrders ==
    /\ pc = "order"
    /\ obs' = [forward |-> crawl_all_from({}, 0, ZeroStats,
                                          FirstPassTargets(<<1, 2>>, loc.kinds),
                                          loc.upstream, 1),
               backward |-> crawl_all_from({}, 0, ZeroStats,
                                           FirstPassTargets(<<2, 1>>, loc.kinds),
                                           loc.upstream, 1)]
    /\ pc' = "ordered"
    /\ UNCHANGED <<crawl_targets, job_postings, clock, targets, idx, total_stats, loc,
                   crawls, crawl_result, exit_status, last_upsert>>

OrderNext == RunBothOrders

OrderSpec == OrderInit /\ [][OrderNext]_vars

\* ------------------------------------------------------------------- C22
\* What the claim compares of a store: per URL the title, the company, the
\* content and the owning target.
Records(rows) ==
    {[original_url |-> r.original_url, title |-> r.title, company_name |-> r.company_name,
      content_raw |-> r.content_raw, crawl_target_id |-> r.crawl_target_id] : r \in rows}

\* C22: for the same upstream data and the same initial store, the pass over
\* the targets in one order and the pass in the other order end with the
\* same JobPosting records and the same aggregate counts, also when both
\* targets yield the same canonical URL.
C22_OrderIndependent ==
    pc = "ordered" =>
        /\ Records(obs.forward.rows) = Records(obs.backward.rows)
        /\ obs.forward.total_stats = obs.backward.total_stats

\* --------------------------------- two upsert_job_posting calls at a time
\* The first request of upsert_job_posting: the rows whose original_url is the
\* one looked up.
upsert_select(rows, original_url) == {r \in rows : r.original_url = original_url}

\* The rest of upsert_job_posting, run on the table `rows` as it is by then
\* with the answer `existing` of the earlier lookup: the update and the insert
\* are requests of their own.
upsert_write(rows, now, existing, target_id, title, company_name, content_raw, original_url) ==
    IF existing # {}
    THEN LET first == CHOOSE r \in existing : \A q \in existing : r.id <= q.id
         IN IF first.content_raw = content_raw
            THEN [rows |-> rows, result |-> "SKIP"]
            ELSE [rows |-> {IF r.original_url = original_url
                            THEN [r EXCEPT !.title = title,
                                           !.company_name = company_name,
                                           !.content_raw = content_raw,
                                           !.updated_at = now]
                            ELSE r : r \in rows},
                  result |-> "UPDATED"]
    ELSE [rows |-> rows \cup {[id |-> Cardinality(rows) + 1,
                               crawl_target_id |-> target_id,
                               title |-> title,
                               company_name |-> company_name,
                               content_raw |-> content_raw,
                               original_url |-> original_url,
                               created_at |-> now,
                               updated_at |-> now]},
          result |-> "NEW"]

\* The two processes that crawl at the same time (two overlapping runs of
\* main), each inside one upsert_job_posting call.
Callers == {1, 2}

\* The arguments an adapter of kind parser_type passes for the job.
UpsertCall(target_id, parser_type, job) ==
    [pc |-> "select", target_id |-> target_id, title |-> job.title,
     company_name |-> company_name_of(parser_type, job),
     content_raw |-> _build_content_raw(job),
     original_url |-> original_url_of(parser_type, job),
     existing |-> {}, now |-> 0, result |-> ""]

UpsertCalls ==
    {UpsertCall(t, k, Job(1, m)) :
        t \in TargetIds, k \in {"toss_job_groups_api", "kakao_api"}, m \in Revisions}

\* The store is empty or holds job 1 of Toss in its first revision; each
\* process is about to run one upsert.
ConcurrentInit ==
    /\ loc \in [Callers -> UpsertCalls]
    /\ job_postings \in
          {{}, upsert_job_posting({}, 0, 1, Job(1, 1).title,
                                  company_name_of("toss_job_groups_api", Job(1, 1)),
                                  _build_content_raw(Job(1, 1)),
                                  original_url_of("toss_job_groups_api", Job(1, 1))).rows}
    /\ obs = [rows_before |-> job_postings]
    /\ pc = "concurrent"
    /\ crawl_targets = [t \in TargetIds |->
                           [parser_type |-> "toss_job_groups_api", is_active |-> TRUE,
                            last_list_hash |-> NoneHash, last_checked_at |-> NoneTime,
                            last_error |-> NoneText]]
    /\ clock = 0
    /\ targets = <<>>
    /\ idx = 0
    /\ total_stats = ZeroStats
    /\ crawls = 0
    /\ crawl_result = "none"
    /\ exit_status = -1
    /\ last_upsert = NoUpsert

\* Process p sends the select and reads the clock.
UpsertSelect(p) ==
    /\ loc[p].pc = "select"
    /\ loc' = [loc EXCEPT ![p].existing = upsert_select(job_postings, loc[p].original_url),
                          ![p].now = clock + 1,
                          ![p].pc = "write"]
    /\ clock' = clock + 1
    /\ UNCHANGED <<crawl_targets, job_postings, pc, targets, idx, total_stats, crawls,
                   crawl_result, exit_status, obs, last_upsert>>

\* Process p acts on what its select answered: return SKIP, send the update,
\* or send the insert.
UpsertWrite(p) ==
    /\ loc[p].pc = "write"
    /\ LET c == loc[p]
           r == upsert_write(job_postings, c.now, c.existing, c.target_id, c.title,
                             c.company_name, c.content_raw, c.original_url)
       IN /\ job_postings' = r.rows
          /\ loc' = [loc EXCEPT ![p].result = r.result, ![p].pc = "done"]
    /\ UNCHANGED <<crawl_targets, clock, pc, targets, idx, total_stats, crawls,
                   crawl_result, exit_status, obs, last_upsert>>

\* The insert of process p is refused because a row of that URL was written
\* since its select (a table with a unique index on original_url, as the
\* seeding scripts assume): the call raises and the item counts as ERROR.
UpsertInsertRefused(p) ==
    /\ loc[p].pc = "write"
    /\ loc[p].existing = {}
    /\ upsert_select(job_postings, loc[p].original_url) # {}
    /\ loc' = [loc EXCEPT ![p].result = "ERROR", ![p].pc = "done"]
    /\ UNCHANGED <<crawl_targets, job_postings, clock, pc, targets, idx, total_stats,
                   crawls, crawl_result, exit_status, obs, last_upsert>>

ConcurrentNext ==
    \E p \in Callers :
        \/ UpsertSelect(p)
        \/ UpsertWrite(p)
        \/ UpsertInsertRefused(p)

ConcurrentSpec == ConcurrentInit /\ [][ConcurrentNext]_vars

\* ------------------------------------------------------------------- C23
\* What the two calls leave when process p runs its whole call before
\* process q starts: the records of the store and the two classifications.
SequentialOutcome(p, q) ==
    LET a == loc[p]
        b == loc[q]
        r1 == upsert_job_posting(obs.rows_before, 1, a.target_id, a.title, a.company_name,
                                 a.content_raw, a.original_url)
        r2 == upsert_job_posting(r1.rows, 2, b.target_id, b.title, b.company_name,
                                 b.content_raw, b.original_url)
    IN [records |-> Records(r2.rows), results |-> (p :> r1.result) @@ (q :> r2.result)]

\* C23: two upserts of the same canonical URL that run at the same time never
\* both find no row and both insert, and what they leave (records of the
\* store, classification of each call) is what one of the two sequential
\* orders leaves.
C23_UpsertAtomic ==
    (\A p \in Callers : loc[p].pc = "done") =>
        /\ ~ (/\ loc[1].original_url = loc[2].original_url
              /\ loc[1].result = "NEW"
              /\ loc[2].result = "NEW")
        /\ [records |-> Records(job_postings), results |-> [p \in Callers |-> loc[p].result]]
              \in {SequentialOutcome(1, 2), SequentialOutcome(2, 1)}

\* ------------------------------------------------- a pass that is killed
\* The process is killed while a target is being crawled: the locals are
\* gone, the store stays as the requests sent so far left it.
Kill ==
    /\ pc \notin {"idle", "crawl_all"}
    /\ pc' = "idle"
    /\ crawl_result' = "killed"
    /\ exit_status' = -9
    /\ loc' = NoLoc
    /\ obs' = [obs EXCEPT !.exit = "killed"]
    /\ UNCHANGED <<crawl_targets, job_postings, clock, targets, idx, total_stats, crawls,
                   last_upsert>>

\* One active target, an API target whose items do not fail or an HTML
\* target, crawled by runs of main that may be killed.
KilledPassInit ==
    /\ \E kind \in API_PARSER_TYPES \cup PARSER_REGISTRY :
          crawl_targets = [t \in TargetIds |->
                             [parser_type |-> IF t = 1 THEN kind ELSE "generic",
                              is_active |-> t = 1, last_list_hash |-> NoneHash,
                              last_checked_at |-> NoneTime, last_error |-> NoneText]]
    /\ job_postings = {}
    /\ clock = 0
    /\ pc = "idle"
    /\ targets = <<>>
    /\ idx = 0
    /\ total_stats = ZeroStats
    /\ loc = NoLoc
    /\ crawls = 0
    /\ crawl_result = "none"
    /\ exit_status = -1
    /\ obs = NoObs
    /\ last_upsert = NoUpsert

KilledPassNext ==
    \/ StartPass
    \/ NextTarget
    \/ ListFetchOk
    \/ ListFetchFail
    \/ DetailFetchOk
    \/ DetailFetchFail
    \/ ApiFetchOk
    \/ ApiFetchFail
    \/ ApiPayloadRaises
    \/ ApiItem
    \/ FinishTarget
    \/ Kill

KilledPassSpec == KilledPassInit /\ [][KilledPassNext]_vars

\* ------------------------------------------------------------------- C24
\* The target row crawl_all would be handed for the target of the current call.
StoredTarget ==
    [id |-> obs.target_id, parser_type |-> obs.parser_type,
     last_list_hash |-> crawl_targets[obs.target_id].last_list_hash]

\* The upstream lists the killed call can have been working on.
KilledOn ==
    {jobs \in JobLists :
        jobs # <<>> /\ obs.computed_hash \in {NoneHash, _compute_list_hash(jobs)}}

C25_NothingDeleted ==
    [][/\ DOMAIN crawl_targets' = DOMAIN crawl_targets
       /\ \A r \in job_postings :
             /\ \E q \in job_postings' :
                   /\ q.id = r.id
                   /\ q.original_url = r.original_url
                   /\ q.crawl_target_id = r.crawl_target_id
                   /\ q.created_at = r.created_at
             /\ r.original_url \notin ListUrls(loc.parser_type, loc.list) =>
                   r \in job_postings']_vars

\* A pass changed by the upstream ran to its end, and a posting this target
\* stored earlier, whose URL the list no longer holds, is still in the store.
C25_Witness ==
    /\ obs.exit = "done"
    /\ \E r \in obs.rows_before :
          /\ r.crawl_target_id = obs.target_id
          /\ r.original_url \notin UpstreamUrls
          /\ r \in job_postings

\* ------------------------------------------------ Kakao: _fetch_all_jobs
JOB_PARTS == <<"TECHNOLOGY", "BUSINESS_SERVICES", "STAFF", "DESIGN">>

\* The largest totalPage the upstream reports.
MaxTotalPage == 2

\* The payload of one page: a job list, and a totalPage unless the upstream
\* leaves it out.
KakaoJobLists == {<<>>, <<Job(1, 1)>>}

KakaoPayloads ==
    [jobList : KakaoJobLists] \cup [jobList : KakaoJobLists, totalPage : 0..MaxTotalPage]

\* payload.get("totalPage", 1)
total_page_of(payload) ==
    IF "totalPage" \in DOMAIN payload THEN payload.totalPage ELSE 1

\* The loop of a part going on after a page that is still below totalPage.
last_page_is_beyond(page, total_page) == page > total_page

\* The test that ends the loop of a part: if page >= total_page: break
last_page(page, total_page) == page >= total_page

\* crawl_kakao_api has called _fetch_all_jobs: first part, first page, no job.
KakaoFetchInit ==
    /\ loc = [part |-> 1, page |-> 1, all_jobs |-> <<>>, requests |-> <<>>, total_page |-> 0]
    /\ pc = "kakao_fetch"
    /\ obs = NoObs
    /\ crawl_targets = [t \in TargetIds |->
                           [parser_type |-> "kakao_api", is_active |-> TRUE,
                            last_list_hash |-> NoneHash, last_checked_at |-> NoneTime,
                            last_error |-> NoneText]]
    /\ job_postings = {}
    /\ clock = 0
    /\ targets = <<>>
    /\ idx = 0
    /\ total_stats = ZeroStats
    /\ crawls = 0
    /\ crawl_result = "none"
    /\ exit_status = -1
    /\ last_upsert = NoUpsert

\* One turn of the while loop: the request for (part, page) answers; its jobs
\* are appended; the loop of the part ends or goes on to the next page; after
\* the last part the function returns.
KakaoPageArrives ==
    /\ pc = "kakao_fetch"
    /\ \E payload \in KakaoPayloads :
          LET total_page == total_page_of(payload)
              asked == Append(loc.requests, <<JOB_PARTS[loc.part], loc.page>>)
              jobs == loc.all_jobs \o payload.jobList
          IN IF ~last_page(loc.page, total_page)
             THEN /\ loc' = [loc EXCEPT !.page = @ + 1, !.all_jobs = jobs,
                                        !.requests = asked, !.total_page = total_page]
                  /\ pc' = pc
             ELSE IF loc.part < Len(JOB_PARTS)
             THEN /\ loc' = [loc EXCEPT !.part = @ + 1, !.page = 1, !.all_jobs = jobs,
                                        !.requests = asked, !.total_page = total_page]
                  /\ pc' = pc
             ELSE /\ loc' = [loc EXCEPT !.all_jobs = jobs, !.requests = asked,
                                        !.total_page = total_page]
                  /\ pc' = "kakao_returned"
    /\ UNCHANGED <<crawl_targets, job_postings, clock, targets, idx, total_stats, crawls,
                   crawl_result, exit_status, obs, last_upsert>>

\* The request for (part, page) raises (raise_for_status, a body that is no
\* JSON): the exception leaves _fetch_all_jobs.
KakaoPageFails ==
    /\ pc = "kakao_fetch"
    /\ loc' = [loc EXCEPT !.requests = Append(@, <<JOB_PARTS[loc.part], loc.page>>)]
    /\ pc' = "kakao_raised"
    /\ UNCHANGED <<crawl_targets, job_postings, clock, targets, idx, total_stats, crawls,
                   crawl_result, exit_status, obs, last_upsert>>

KakaoFetchNext ==
    \/ KakaoPageArrives
    \/ KakaoPageFails

KakaoFetchSpec == KakaoFetchInit /\ [][KakaoFetchNext]_vars

\* ------------------------------------------------------------------- C26
\* The position of a part in JOB_PARTS.
PartIndex(part) == CHOOSE k \in 1..Len(JOB_PARTS) : JOB_PARTS[k] = part

\* C26: _fetch_all_jobs asks for the parts in the order of JOB_PARTS and, in
\* a part, for the pages 1, 2, ... each once; it leaves a part after the
\* first page whose number is at least the totalPage of that page's payload
\* and not before; it returns after the last part; and with totalPage at most
\* MaxTotalPage it asks for no page beyond that, so it ends after at most
\* 4 * max(1, MaxTotalPage) requests.
C26_KakaoPagination ==
    LET asked == loc.requests
        n == Len(asked)
    IN /\ n > 0 => asked[1] = <<JOB_PARTS[1], 1>>
       /\ \A k \in 1..(n - 1) :
             \/ asked[k + 1] = <<asked[k][1], asked[k][2] + 1>>
             \/ /\ PartIndex(asked[k][1]) < Len(JOB_PARTS)
                /\ asked[k + 1] = <<JOB_PARTS[PartIndex(asked[k][1]) + 1], 1>>
       /\ \A j, k \in 1..n : asked[j] = asked[k] => j = k
       /\ (pc = "kakao_fetch" /\ n > 0) =>
             /\ <<JOB_PARTS[loc.part], loc.page>> # asked[n]
             /\ IF asked[n][1] = JOB_PARTS[loc.part]
                THEN loc.page = asked[n][2] + 1 /\ asked[n][2] < loc.total_page
                ELSE loc.page = 1 /\ asked[n][2] >= loc.total_page
       /\ pc = "kakao_returned" =>
             /\ asked[n][1] = JOB_PARTS[Len(JOB_PARTS)]
             /\ asked[n][2] >= loc.total_page
             /\ \A p \in 1..Len(JOB_PARTS) : \E k \in 1..n : asked[k] = <<JOB_PARTS[p], 1>>
       /\ \A k \in 1..n : asked[k][2] <= Max(1, MaxTotalPage)
       /\ n <= Len(JOB_PARTS) * Max(1, MaxTotalPage)

\* _fetch_all_jobs returned after two pages of the first part and one page
\* of each other part.
C26_Witness ==
    /\ pc = "kakao_returned"
    /\ loc.requests = <<<<"TECHNOLOGY", 1>>, <<"TECHNOLOGY", 2>>, <<"BUSINESS_SERVICES", 1>>,
                        <<"STAFF", 1>>, <<"DESIGN", 1>>>>
    /\ Len(loc.all_jobs) > 0

\* ------------------------------------------------------------------- C27
\* C27: crawl_all starts from zero, takes the targets one by one in the order
\* of the list, adds to each counter exactly what the crawl_target call of
\* that target returned, changes the aggregate at no other step, and returns
\* only after the last target of the list: what it returns is, per counter,
\* the sum over the targets of the list, each crawled once.
C27_AggregateIsSum ==
    [][/\ (pc = "idle" /\ pc' = "crawl_all") => (total_stats' = ZeroStats /\ idx' = 0)
       /\ pc = "crawl_all" =>
             /\ idx' = idx + 1
             /\ obs'.target_id = targets[idx'].id
             /\ loc'.target_id = targets[idx'].id
             /\ total_stats' = total_stats
             /\ targets' = targets
       /\ (pc \notin {"idle", "crawl_all"} /\ pc' \notin {"idle", "crawl_all"}) =>
             (total_stats' = total_stats /\ idx' = idx /\ targets' = targets)
       /\ (pc \notin {"idle", "crawl_all"} /\ pc' \in {"idle", "crawl_all"}
           /\ crawl_result' # "raised") =>
             /\ \A k \in StatKeys : total_stats'[k] = total_stats[k] + obs'.stats[k]
             /\ obs'.stats = loc.stats \/ obs'.stats = Bump(loc.stats, "ERROR")
             /\ idx' = idx
             /\ targets' = targets
             /\ pc' = "idle" <=> idx = Len(targets)
             /\ pc' = "idle" => crawl_result' = "returned"]_vars

\* crawl_all returned over two targets: the first stored a new posting, the
\* second ended with an error.
C27_Witness ==
    /\ pc = "idle"
    /\ crawl_result = "returned"
    /\ Len(targets) = 2
    /\ idx = 2
    /\ obs.stats = [ZeroStats EXCEPT !["ERROR"] = 1]
    /\ total_stats = [ZeroStats EXCEPT !["NEW"] = 1, !["ERROR"] = 1]

\* ------------------------------------------------------------------- C28
\* C28: once main has the client and the active targets, the status it
\* returns is 1 when the aggregate of the pass holds an ERROR and 0 when it
\* holds none; with no active target there is no pass and it returns 0.
C28_ExitStatus ==
    /\ (pc = "idle" /\ crawl_result = "returned") =>
          /\ exit_status \in {0, 1}
          /\ exit_status # 0 <=> total_stats["ERROR"] > 0
    /\ (pc = "idle" /\ crawl_result = "none" /\ exit_status # -1) =>
          /\ exit_status = 0
          /\ \A t \in TargetIds : ~crawl_targets[t].is_active

\* main returned 1 after a pass over two targets of which one stored a new
\* posting and one ended with an error.
C28_Witness ==
    /\ pc = "idle"
    /\ crawl_result = "returned"
    /\ exit_status = 1
    /\ total_stats["ERROR"] = 1
    /\ total_stats["NEW"] = 1
    /\ total_stats["SKIP"] = 0

\* ------------------------------------------------- dispatch on the kind
\* What the parser_type column of a crawl_targets row can hold: a registered
\* kind, an API kind, a kind nobody registered, or null.
StoredKinds == ParserTypes \cup {"None"}

\* One active target whose row holds any of these kinds, or comes without
\* the parser_type key (a table that has no such column).
DispatchInit ==
    /\ \E row \in [parser_type : StoredKinds, is_active : {TRUE},
                   last_list_hash : {NoneHash}, last_checked_at : {NoneTime},
                   last_error : {NoneText}]
                  \cup [is_active : {TRUE}, last_list_hash : {NoneHash},
                        last_checked_at : {NoneTime}, last_error : {NoneText}] :
          crawl_targets = [t \in TargetIds |->
                             IF t = 1 THEN row
                             ELSE [parser_type |-> "generic", is_active |-> FALSE,
                                   last_list_hash |-> NoneHash,
                                   last_checked_at |-> NoneTime, last_error |-> NoneText]]
    /\ job_postings = {}
    /\ clock = 0
    /\ pc = "idle"
    /\ targets = <<>>
    /\ idx = 0
    /\ total_stats = ZeroStats
    /\ loc = NoLoc
    /\ crawls = 0
    /\ crawl_result = "none"
    /\ exit_status = -1
    /\ obs = NoObs
    /\ last_upsert = NoUpsert

DispatchSpec == DispatchInit /\ [][Next]_vars

\* ------------------------------------------------------------------- C29
\* The row of target t declares a kind.
DeclaresKind(t) ==
    /\ "parser_type" \in DOMAIN crawl_targets[t]
    /\ crawl_targets[t].parser_type # "None"

\* C29: a target of a kind that is not registered ends with exactly one
\* ERROR, no posting written and its fingerprint as it was; a target that
\* declares no kind is crawled by the generic HTML adapter; a target of an
\* API kind is crawled by the adapter of that kind and by no other.
C29_Dispatch ==
    LET t == obs.target_id
        row == crawl_targets[t]
    IN t # 0 =>
       /\ (DeclaresKind(t) /\ row.parser_type \notin API_PARSER_TYPES \cup PARSER_REGISTRY
           /\ CrawlEnded) =>
             /\ obs.stats = [ZeroStats EXCEPT !["ERROR"] = 1]
             /\ obs.upserts = 0
             /\ job_postings = obs.rows_before
             /\ row.last_list_hash = obs.hash_before
       /\ ~DeclaresKind(t) =>
             /\ obs.parser_type = "generic"
             /\ obs.exit # "unknown_parser"
             /\ pc \notin {"api_fetch", "api_items"}
       /\ (DeclaresKind(t) /\ row.parser_type \in API_PARSER_TYPES) =>
             /\ obs.parser_type = row.parser_type
             /\ pc \notin {"list_fetch", "detail_fetch"}
             /\ last_upsert.calls > 0 =>
                   \E job \in ApiJobs :
                      /\ last_upsert.original_url = original_url_of(row.parser_type, job)
                      /\ last_upsert.company_name = company_name_of(row.parser_type, job)

\* ------------------------------------------------------------------- C30
\* C30: a step that calls update_target_checked changes last_checked_at of
\* the target of the call and nothing else in the store; a step that calls
\* update_target_hash changes last_list_hash and last_checked_at of that
\* target and nothing else; so last_error and is_active of every target stay
\* through every step but the one that records an error, and no bookkeeping
\* write touches a posting.
C30_BookkeepingFrame ==
    [][/\ obs'.checked_writes = obs.checked_writes + 1 =>
             /\ crawl_targets' =
                   [crawl_targets EXCEPT ![loc.target_id].last_checked_at = clock']
             /\ job_postings' = job_postings
       /\ obs'.hash_writes = obs.hash_writes + 1 =>
             /\ crawl_targets' =
                   [crawl_targets EXCEPT ![loc.target_id].last_list_hash = obs'.computed_hash,
                                         ![loc.target_id].last_checked_at = clock']
             /\ job_postings' = job_postings
       /\ \A t \in TargetIds :
             /\ crawl_targets'[t].is_active = crawl_targets[t].is_active
             /\ crawl_targets'[t].last_error # crawl_targets[t].last_error =>
                   (obs'.error_writes = obs.error_writes + 1 /\ t = loc.target_id)]_vars

\* A target whose earlier pass failed and recorded an error is crawled to the
\* end: the new fingerprint is stored and the old message is still there.
C30_Witness ==
    /\ obs.exit = "done"
    /\ obs.hash_writes = 1
    /\ obs.stats["ERROR"] = 0
    /\ crawl_targets[obs.target_id].last_list_hash = obs.computed_hash
    /\ crawl_targets[obs.target_id].last_error # NoneText

\* ------------------------------------------------------------------- C31
\* The call ended on a failure of the target as a whole: the list fetch (for
\* Kakao the request of any page), the JSON or its resultType, the list
\* parse, or a kind no parser is registered for.
TargetFailed ==
    obs.exit \in {"list_fetch_failed", "api_fetch_failed", "parse_failed", "unknown_parser"}

\* C31: a call that ends on a failure of the target leaves the target's
\* fingerprint as it found it and has neither inserted nor updated a posting:
\* no upsert call, no fingerprint write, the job_postings table as it was.
C31_FailureWritesNothing ==
    TargetFailed =>
        /\ crawl_targets[obs.target_id].last_list_hash = obs.hash_before
        /\ obs.hash_writes = 0
        /\ obs.upserts = 0
        /\ last_upsert.calls = 0
        /\ job_postings = obs.rows_before

\* A target that was crawled to the end before fails on its next pass: its
\* postings and its fingerprint from the earlier pass are in the store.
C31_Witness ==
    /\ TargetFailed
    /\ obs.stats = [ZeroStats EXCEPT !["ERROR"] = 1]
    /\ obs.hash_before # NoneHash
    /\ \E r \in job_postings : r.crawl_target_id = obs.target_id

\* ------------------------------------------- Toss: groups and primary jobs
\* A job group of the Toss payload: with a primary_job (<<job>>) or without
\* one (<<>>).
TossGroups == {<<>>} \cup {<<job>> : job \in ApiJobs}

TossGroupLists == SeqsOver(TossGroups)

\* [g.get("primary_job") for g in groups if g.get("primary_job")]
RECURSIVE primary_jobs_of(_)
primary_jobs_of(groups) ==
    IF groups = <<>> THEN <<>>
    ELSE Head(groups) \o primary_jobs_of(Tail(groups))

\* The list request of a Toss target answers with job groups: no group, only
\* last_checked_at is written; else the primary jobs are hashed, the hash is
\* compared, and the loop goes over the groups, passing those without a
\* primary job.
TossGroupsArrive ==
    /\ pc = "api_fetch"
    /\ loc.parser_type = "toss_job_groups_api"
    /\ \E groups \in TossGroupLists :
          LET primary_jobs == primary_jobs_of(groups)
              current_hash == _compute_list_hash(primary_jobs)
          IN IF groups = <<>>
             THEN /\ crawl_targets' = update_target_checked(crawl_targets, clock + 1,
                                                            loc.target_id)
                  /\ clock' = clock + 1
                  /\ Returns(loc.stats, [obs EXCEPT !.exit = "empty",
                                                    !.checked_writes = @ + 1])
             ELSE IF current_hash = loc.last_list_hash
             THEN /\ crawl_targets' = update_target_checked(crawl_targets, clock + 1,
                                                            loc.target_id)
                  /\ clock' = clock + 1
                  /\ Returns(loc.stats, [obs EXCEPT !.exit = "unchanged",
                                                    !.computed_hash = current_hash,
                                                    !.checked_writes = @ + 1])
             ELSE /\ loc' = [loc EXCEPT !.list = primary_jobs,
                                        !.current_hash = current_hash, !.i = 1]
                  /\ obs' = [obs EXCEPT !.computed_hash = current_hash,
                                        !.items = Len(primary_jobs)]
                  /\ pc' = IF primary_jobs = <<>> THEN "update_hash" ELSE "api_items"
                  /\ UNCHANGED <<crawl_targets, clock, targets, idx, total_stats, crawls,
                                 crawl_result, exit_status>>
    /\ UNCHANGED <<job_postings, last_upsert>>

\* One active target of any kind; a Toss target may also be answered with
\* groups that have no primary job.
EmptyListNext ==
    \/ Next
    \/ TossGroupsArrive

EmptyListSpec == KilledPassInit /\ [][EmptyListNext]_vars

\* ------------------------------------------------------------------- C33
\* C33: an API adapter that is answered with an empty list writes
\* last_checked_at and nothing else: it computes and stores no fingerprint,
\* the stored one stays, and no counter moves.  The HTML adapter that finds
\* no item on a changed list page stores the new fingerprint.
C33_EmptyListOnlyChecked ==
    /\ obs.exit = "empty" =>
          /\ obs.parser_type \in API_PARSER_TYPES
          /\ obs.computed_hash = NoneHash
          /\ obs.hash_writes = 0
          /\ obs.checked_writes = 1
          /\ crawl_targets[obs.target_id].last_list_hash = obs.hash_before
          /\ crawl_targets[obs.target_id].last_checked_at > obs.checked_before
          /\ obs.stats = ZeroStats
          /\ job_postings = obs.rows_before
    /\ obs.exit = "no_items" =>
          /\ obs.parser_type \notin API_PARSER_TYPES
          /\ obs.hash_writes = 1
          /\ crawl_targets[obs.target_id].last_list_hash = obs.computed_hash
          /\ obs.computed_hash # obs.hash_before
          /\ obs.stats = ZeroStats

\* An API target crawled to the end before is answered with an empty list:
\* the fingerprint of the earlier, non-empty list is still stored.
C33_Witness ==
    /\ obs.exit = "empty"
    /\ obs.hash_before # NoneHash
    /\ crawl_targets[obs.target_id].last_list_hash = obs.hash_before
    /\ job_postings # {}

\* ------------------------------------------------------------------- C32
\* The upstream items of the fingerprinted list that have no row in rows.
MissingUrls(rows) == {u \in UpstreamUrls : \A r \in rows : r.original_url # u}

\* C32: a pass that ran the item loop stores the new fingerprint also when
\* items failed, and a later pass that computes the stored fingerprint takes
\* the unchanged exit: it looks at no item and calls no upsert, so an item
\* that is missing from the store stays missing.
C32_FailedItemNotRetried ==
    /\ (obs.exit = "done" /\ obs.stats["ERROR"] > 0) =>
          crawl_targets[obs.target_id].last_list_hash = obs.computed_hash
    /\ (CrawlEnded /\ SameFingerprint) =>
          /\ obs.exit = "unchanged"
          /\ obs.seen = 0
          /\ obs.upserts = 0
          /\ MissingUrls(job_postings) = MissingUrls(obs.rows_before)

\* The list is the one of the stored fingerprint, one of its items is not in
\* the store (it failed in the pass that stored the fingerprint), and the
\* pass ended on the unchanged exit without it.
C32_Witness ==
    /\ obs.exit = "unchanged"
    /\ SameFingerprint
    /\ MissingUrls(job_postings) # {}
    /\ obs.stats = ZeroStats

\* ------------------------------------------------------------------- C34
\* The turns of the item loop that ended under the key k.
TurnsUnder(k) == {j \in 1..Len(obs.results) : obs.results[j] = k}

\* C34: when an API adapter has run its job loop and returned, every turn of
\* the loop ended under exactly one of NEW, UPDATED, SKIP, ERROR or, for a job
\* without canonical URL, under none; each counter is the number of turns
\* that ended under its key, so the four counters add up to the number of
\* upstream jobs with a canonical URL, which is at most the number of
\* upstream jobs.
C34_CountersPartitionItems ==
    (obs.exit = "done" /\ obs.parser_type \in API_PARSER_TYPES) =>
        /\ Len(obs.results) = obs.items
        /\ \A j \in 1..Len(obs.results) : obs.results[j] \in StatKeys \cup {"none"}
        /\ \A k \in StatKeys : obs.stats[k] = Cardinality(TurnsUnder(k))
        /\ Cardinality(TurnsUnder("none")) = obs.items - UpstreamItems
        /\ Counted(obs.stats) = UpstreamItems
        /\ Counted(obs.stats) <= obs.items

\* A list of two jobs, one of them without canonical URL, went through the
\* loop of an API adapter: one job counted, the other under no key.
C34_Witness ==
    /\ obs.exit = "done"
    /\ obs.parser_type \in API_PARSER_TYPES
    /\ obs.items = 2
    /\ UpstreamItems = 1
    /\ Counted(obs.stats) = 1
    /\ Cardinality(TurnsUnder("none")) = 1

\* ------------------------------------------------------------------- C35
\* C35: in every step, each stored posting keeps its owning target, whatever
\* target the step ran for and whether it updated, skipped or did not touch
\* the posting; a posting that the step inserted is owned by the target the
\* upsert was called for.
C35_OwnerSetAtInsert ==
    [][/\ \A r \in job_postings :
             \E q \in job_postings' : /\ q.id = r.id
                                      /\ q.original_url = r.original_url
                                      /\ q.crawl_target_id = r.crawl_target_id
       /\ \A q \in job_postings' :
             (\A r \in job_postings : r.id # q.id) =>
                 /\ last_upsert'.result = "NEW"
                 /\ q.original_url = last_upsert'.original_url
                 /\ q.crawl_target_id = last_upsert'.target_id]_vars

\* Another target than the owner has just yielded the URL of a stored posting
\* with different content: the posting holds the new content and its owner is
\* still the target that inserted it.
C35_Witness ==
    /\ last_upsert.result = "UPDATED"
    /\ \E r \in job_postings : /\ r.original_url = last_upsert.original_url
                               /\ r.content_raw = last_upsert.content_raw
                               /\ r.updated_at = last_upsert.now
                               /\ r.crawl_target_id # last_upsert.target_id

\* ------------------------------------------------------------------- C36
\* upsert_job_posting called with any title, company name and content for
\* one canonical URL: what an item loop can hand over when the list page
\* gives title and company and the detail page gives the content.
MaxCalls == 2

ItemTitles == {<<"title", m>> : m \in Revisions}
ItemCompanies == {<<>>} \cup {<<"company", m>> : m \in Revisions}
ItemContents == {<<"text", m>> : m \in Revisions}

UpsertOnlyInit ==
    /\ job_postings = {}
    /\ clock = 0
    /\ last_upsert = NoUpsert
    /\ pc = "upsert"
    /\ loc = NoLoc
    /\ obs = NoObs
    /\ crawl_targets = [t \in TargetIds |->
                           [parser_type |-> "generic", is_active |-> TRUE,
                            last_list_hash |-> NoneHash, last_checked_at |-> NoneTime,
                            last_error |-> NoneText]]
    /\ targets = <<>>
    /\ idx = 0
    /\ total_stats = ZeroStats
    /\ crawls = 0
    /\ crawl_result = "none"
    /\ exit_status = -1

\* One call of upsert_job_posting for the URL of item 1.
UpsertCalled ==
    /\ pc = "upsert"
    /\ last_upsert.calls < MaxCalls
    /\ \E target_id \in TargetIds, title \in ItemTitles, company_name \in ItemCompanies,
          content_raw \in ItemContents :
          LET now == clock + 1
              original_url == <<"href", 1>>
              r == upsert_job_posting(job_postings, now, target_id, title, company_name,
                                      content_raw, original_url)
          IN /\ job_postings' = r.rows
             /\ clock' = now
             /\ last_upsert' = [calls |-> last_upsert.calls + 1, target_id |-> target_id,
                                title |-> title, company_name |-> company_name,
                                content_raw |-> content_raw,
                                original_url |-> original_url, result |-> r.result,
                                now |-> now, before |-> job_postings]
    /\ UNCHANGED <<crawl_targets, pc, targets, idx, total_stats, loc, crawls,
                   crawl_result, exit_status, obs>>

UpsertOnlySpec == UpsertOnlyInit /\ [][UpsertCalled]_vars

\* C36: when upsert_job_posting is called for a stored URL with the stored
\* content payload, it returns SKIP and the stored posting keeps its title and
\* company name, whatever title and company name the call carried.
C36_ContentOnlyComparison ==
    last_upsert.calls > 0 =>
        \A r \in last_upsert.before :
            (r.original_url = last_upsert.original_url
                 /\ r.content_raw = last_upsert.content_raw) =>
                /\ last_upsert.result = "SKIP"
                /\ \E q \in job_postings : /\ q.id = r.id
                                           /\ q.title = r.title
                                           /\ q.company_name = r.company_name

\* The URL came back with another title and another company name and the
\* stored content: SKIP, and the posting holds the old title and company.
C36_Witness ==
    /\ last_upsert.result = "SKIP"
    /\ \E r \in job_postings : /\ r.original_url = last_upsert.original_url
                               /\ r.content_raw = last_upsert.content_raw
                               /\ r.title # last_upsert.title
                               /\ r.company_name # last_upsert.company_name

====
